---- MODULE Spec2Model ----
(***************************************************************************)
(* Drone control stack: the waypoint executor (Autopilot, flight_plan.py)  *)
(* and the simulated backend (SimulatedDrone, simulator.py).               *)
(*                                                                         *)
(* Threads are modelled at the granularity of one access to shared state   *)
(* per step: the pc values carry the source line the thread is about to    *)
(* execute.  The API side of the autopilot is one request at a time (its   *)
(* steps interleave freely with the worker threads).                       *)
(***************************************************************************)
EXTENDS Integers, Sequences, FiniteSets, TLC

\* ---------------------------------------------------------------- bounds
NumPlans == 1       \* FlightPlan objects that exist at once
NumWps == 2         \* waypoints per flight plan
MaxWorkers == 2     \* autopilot worker threads that may be alive at once
MaxCount == 2       \* saturation of the per-waypoint go_to counter (history)
MaxRc == 2          \* RC integrator threads that may be alive at once
MaxCallers == 2     \* threads that call the drone's control requests at once
MaxSent == 4        \* datagrams numbered while the acknowledgements are observed
MaxWire == 2        \* datagrams in flight to the device, replies in the socket
MaxNav == 2         \* navigator worker threads alive at once
MaxRays == 6        \* rays of a camera frame
MaxObstacles == 2   \* obstacles in a scene
MaxTicks == 4       \* integrator ticks with the battery meter on
MaxPos == 4         \* |x|, |y| of the simulated drone stay within this (cm)
MaxAlt == 130       \* z of the simulated drone stays within this (cm)
MaxSteps == 4       \* interpolation steps of one go_to
MaxRoot == 200      \* range of the integer square root

\* ------------------------------------------------------- autopilot state
VARIABLES
    cur,        \* Autopilot._plan: a plan object, or NoPlan
    ploop,      \* FlightPlan.loop of every plan object (set before load_plan)
    stopEv,     \* Autopilot._stop_event
    pstatus,    \* FlightPlan.status of every plan object
    pindex,     \* FlightPlan.current_index of every plan object
    wstat,      \* Waypoint.status, per plan object and waypoint index
    wpc,        \* worker threads: line of _run about to execute, or "dead"
    wplan,      \* worker local `plan`
    widx,       \* worker local `idx`
    wsucc,      \* worker local `success`
    cpc,        \* the API request in progress: line about to execute
    carg,       \* argument of the load_plan call in progress
    is_flying,  \* DroneState.is_flying of the drone the autopilot drives
    \* history variables (observers, never read by the actions' guards)
    obs,          \* which observer is switched on (fixed by Init):
                  \* "none", "calls", "abort", "goto", "power" or "acks"
    last,         \* the last API request that returned: "load_ok", "load_err", "other"
    abortMark,    \* <<plan, waypoints ACTIVE when abort() wrote ABORTED>>, until start()
    gotoCount     \* per plan and waypoint: go_to calls issued in the current pass

VARIABLES
    state,      \* SimulatedDrone._state: x, y, z, yaw, speed, battery,
                \* temperature, is_connected (is_flying is the variable above)
    speed_setting,  \* SimulatedDrone._speed
    rc_active,  \* SimulatedDrone._rc_active
    rc_values,  \* SimulatedDrone._rc_values
    rpc,        \* RC integrator threads: line of _rc_loop about to execute, or "dead"
    rloc,       \* RC integrator local lr, fb, ud, yaw_rate
    spc,        \* per caller thread, its control request in progress: the
                \* line about to execute
    mpc,        \* the motion request (move / go_to) in progress
    mloc,       \* locals of the motion request: a = (dx, dy, dz) or (sx, sy, sz),
                \* t = target, v = speed or distance, n = steps, i, dir,
                \* ms = duration or dt
    grounded    \* history: land() succeeded or emergency_stop() ran, and no
                \* takeoff succeeded since

VARIABLES
    tstate,     \* TelloDrone._state: is_connected, is_flying
    tsock,      \* TelloDrone._cmd_socket: "none", "open" or "closed"
    trunning,   \* TelloDrone._running
    treq,       \* per caller thread, its request to the adapter: op, position
                \* (at), argument, and the local resp
    twire,      \* datagrams the device has received and not yet handled
    tinbox,     \* replies waiting in the command socket
    tser,       \* history, kept while obs = "acks": the datagrams sent are
                \* numbered (next = the last number given); wire and inbox
                \* hold, beside twire and tinbox, the number of each datagram
                \* and of the datagram each reply answers; mine[c] is the
                \* number of the datagram caller c sent, got[c] that of the
                \* reply its recvfrom returned (0: none)
    rc_input,   \* the argument tuple of the send_rc calls (fixed by Init)
    ticks,      \* integrator ticks run so far, counted while the meter is on
    cast,       \* Environment.ray_cast under way: its arguments (obstacles, ox,
                \* oy, oz, dir = (dx, dy), max_range), the loop index i and the
                \* locals nearest_dist, nearest_obs (an index, 0 for None)
    avoid       \* AutonomousNavigator._compute_commands under way: its
                \* arguments (depths of the frame, yaw and z of the state,
                \* goal_bearing, goal_alt) and, once returned, its result
                \* (yaw_cmd, fwd_cmd, alt_cmd)

VARIABLES
    nav,        \* AutonomousNavigator: _destination, _active, _status, _reached,
                \* _avoidance_action
    npc,        \* per navigator thread, its position in _nav_loop, or "dead"
    nloc,       \* per navigator thread, its locals: the position it read with
                \* get_state() (pos) and the destination it read (dest)
    ncall       \* the position of the caller inside start() or stop(), or "idle"

rcVars == <<rc_active, rc_values>>
rcThreadVars == <<rpc, rloc>>
motionVars == <<mpc, mloc>>
simVars == <<state, speed_setting, rcVars, rcThreadVars, spc, motionVars, grounded>>
apVars == <<cur, ploop, stopEv, pstatus, pindex, wstat, wpc, wplan, widx, wsucc,
            cpc, carg, is_flying>>
histVars == <<obs, last, abortMark, gotoCount>>

workerVars == <<wpc, wplan, widx, wsucc>>
planVars == <<pstatus, pindex, wstat>>
fixedVars == <<ploop, obs>>
callerVars == <<cpc, carg>>
\* What the simulated drone never touches.
autopilotVars == <<cur, ploop, stopEv, planVars, workerVars, callerVars, histVars>>
\* The same without the observer of returned requests.
apButLast == <<cur, ploop, stopEv, planVars, workerVars, callerVars, obs,
               abortMark, gotoCount>>
telloVars == <<tstate, tsock, trunning, treq, twire, tinbox, tser>>
envVars == <<rc_input, ticks, cast, avoid>>
navVars == <<nav, npc, nloc, ncall>>
\* What the autopilot never touches.
outsideAp == <<simVars, telloVars, envVars, navVars>>
vars == <<apVars, histVars, simVars, telloVars, envVars, navVars>>

NoPlan == 0
\* The plan objects.  One that neither the autopilot, nor a worker, nor a
\* request in progress refers to is garbage; its name then stands for a newly
\* constructed FlightPlan.
Plans == 1 .. NumPlans
Loop(p) == ploop[p]
PlanLen(p) == NumWps
WpIdx == 0 .. (NumWps - 1)
Workers == 1 .. MaxWorkers

AllPending == [i \in WpIdx |-> "PENDING"]
ZeroCount == [i \in WpIdx |-> 0]
Bump(n) == IF n < MaxCount THEN n + 1 ELSE MaxCount
NoMark == <<NoPlan, {}>>

\* A freshly constructed FlightPlan (dataclass defaults).
NewPlanStatus == "IDLE"
NewPlanIndex == 0

\* The plan objects still referred to.
Live(c, wp, a) == ({c, a} \cup {wp[w] : w \in Workers}) \ {NoPlan}
\* f with the garbage objects replaced by newly constructed ones.
Collected(f, new, live) == [p \in Plans |-> IF p \in live THEN f[p] ELSE new]

\* The plan fields (ps, pindex, wstat) and the observers after the
\* references c, wp, a are all that is left.
Collect(ps, c, wp, a) ==
    LET live == Live(c, wp, a) IN
    /\ pstatus' = Collected(ps, NewPlanStatus, live)
    /\ pindex' = Collected(pindex, NewPlanIndex, live)
    /\ wstat' = Collected(wstat, AllPending, live)
    /\ gotoCount' = Collected(gotoCount, ZeroCount, live)
    /\ abortMark' = IF abortMark[1] \in live THEN abortMark ELSE NoMark

APInit ==
    /\ cur = NoPlan
    /\ ploop \in [Plans -> BOOLEAN]
    /\ stopEv = FALSE
    /\ pstatus = [p \in Plans |-> NewPlanStatus]
    /\ pindex = [p \in Plans |-> NewPlanIndex]
    /\ wstat = [p \in Plans |-> AllPending]
    /\ wpc = [w \in Workers |-> "dead"]
    /\ wplan = [w \in Workers |-> NoPlan]
    /\ widx = [w \in Workers |-> 0]
    /\ wsucc = [w \in Workers |-> FALSE]
    /\ cpc = "idle"
    /\ carg = NoPlan
    /\ last = "other"
    /\ abortMark = NoMark
    /\ gotoCount = [p \in Plans |-> ZeroCount]

\* The observer of returned API requests.
Returned(what) == last' = IF obs \in {"calls", "acks"} THEN what ELSE last

\* ------------------------------------------------------------- load_plan
\* A guard that would also refuse a PAUSED plan.
LoadRejectedWhenPaused == cur # NoPlan /\ pstatus[cur] \in {"RUNNING", "PAUSED"}

\* The guard of load_plan: a plan is loaded and it is RUNNING.
LoadRejected == cur # NoPlan /\ pstatus[cur] = "RUNNING"

\* load_plan(p), lines 157-158: raise, or go on to line 159
CallLoad(p) ==
    /\ cpc = "idle"
    /\ IF LoadRejected
         THEN /\ cpc' = "idle"
              /\ UNCHANGED carg
              /\ Returned("load_err")
         ELSE /\ cpc' = "load_159"
              /\ carg' = p
              /\ UNCHANGED last
    /\ UNCHANGED <<cur, stopEv, planVars, workerVars, is_flying,
                   ploop, outsideAp, obs, abortMark, gotoCount>>

\* self._plan = plan
Load159 ==
    /\ cpc = "load_159"
    /\ cur' = carg
    /\ cpc' = "load_160"
    /\ Collect(pstatus, carg, wplan, carg)
    /\ UNCHANGED <<stopEv, workerVars, carg, is_flying, ploop, outsideAp, obs, last>>

\* self._plan.status = IDLE
Load160 ==
    /\ cpc = "load_160"
    /\ pstatus' = [pstatus EXCEPT ![cur] = "IDLE"]
    /\ cpc' = "load_161"
    /\ UNCHANGED <<cur, stopEv, pindex, wstat, workerVars, carg, is_flying,
                   ploop, outsideAp, histVars>>

\* self._plan.current_index = 0
Load161 ==
    /\ cpc = "load_161"
    /\ pindex' = [pindex EXCEPT ![cur] = 0]
    /\ cpc' = "load_162"
    /\ UNCHANGED <<cur, stopEv, pstatus, wstat, workerVars, carg, is_flying,
                   ploop, outsideAp, histVars>>

\* for wp in self._plan.waypoints: wp.status = PENDING; return
Load162 ==
    /\ cpc = "load_162"
    /\ wstat' = [wstat EXCEPT ![cur] = AllPending]
    /\ cpc' = "idle"
    /\ carg' = NoPlan
    /\ Returned("load_ok")
    /\ gotoCount' = IF obs = "goto" THEN [gotoCount EXCEPT ![cur] = ZeroCount]
                                    ELSE gotoCount
    /\ UNCHANGED <<cur, stopEv, pstatus, pindex, workerVars, is_flying,
                   ploop, outsideAp, obs, abortMark>>

\* ----------------------------------------------------------------- start
\* start() returns without effect when the loaded plan is RUNNING.
StartNoop == pstatus[cur] = "RUNNING"

\* start(), lines 166-169.  (A request that would need more worker threads
\* than the model has is not issued.)
CallStart ==
    /\ cpc = "idle"
    /\ \E w \in Workers : wpc[w] = "dead"
    /\ IF cur = NoPlan \/ StartNoop
         THEN /\ cpc' = "idle"
              /\ Returned("other")
         ELSE /\ cpc' = "start_171"
              /\ UNCHANGED last
    /\ abortMark' = NoMark
    /\ UNCHANGED <<cur, stopEv, planVars, workerVars, carg, is_flying,
                   ploop, outsideAp, obs, gotoCount>>

\* self._stop_event.clear()
Start171 ==
    /\ cpc = "start_171"
    /\ stopEv' = FALSE
    /\ cpc' = "start_172"
    /\ UNCHANGED <<cur, planVars, workerVars, carg, is_flying, ploop, outsideAp, histVars>>

\* self._plan.status = RUNNING
Start172 ==
    /\ cpc = "start_172"
    /\ pstatus' = [pstatus EXCEPT ![cur] = "RUNNING"]
    /\ cpc' = "start_173"
    /\ UNCHANGED <<cur, stopEv, pindex, wstat, workerVars, carg, is_flying,
                   ploop, outsideAp, histVars>>

\* self._thread = Thread(target=self._run); self._thread.start()
Start173 ==
    /\ cpc = "start_173"
    /\ \E w \in Workers :
         /\ wpc[w] = "dead"
         /\ \A v \in Workers : wpc[v] = "dead" => w <= v
         /\ wpc' = [wpc EXCEPT ![w] = "L190"]
    /\ cpc' = "idle"
    /\ Returned("other")
    /\ UNCHANGED <<cur, stopEv, planVars, wplan, widx, wsucc, carg, is_flying,
                   ploop, outsideAp, obs, abortMark, gotoCount>>

\* --------------------------------------------------------- pause / resume
\* pause(), line 177
CallPause ==
    /\ cpc = "idle"
    /\ IF cur # NoPlan /\ pstatus[cur] = "RUNNING"
         THEN cpc' = "pause_178" /\ UNCHANGED last
         ELSE cpc' = "idle" /\ Returned("other")
    /\ UNCHANGED <<cur, stopEv, planVars, workerVars, carg, is_flying,
                   ploop, outsideAp, obs, abortMark, gotoCount>>

\* self._plan.status = PAUSED
Pause178 ==
    /\ cpc = "pause_178"
    /\ pstatus' = [pstatus EXCEPT ![cur] = "PAUSED"]
    /\ cpc' = "idle"
    /\ Returned("other")
    /\ UNCHANGED <<cur, stopEv, pindex, wstat, workerVars, carg, is_flying,
                   ploop, outsideAp, obs, abortMark, gotoCount>>

\* resume(), line 181
CallResume ==
    /\ cpc = "idle"
    /\ IF cur # NoPlan /\ pstatus[cur] = "PAUSED"
         THEN cpc' = "resume_182" /\ UNCHANGED last
         ELSE cpc' = "idle" /\ Returned("other")
    /\ UNCHANGED <<cur, stopEv, planVars, workerVars, carg, is_flying,
                   ploop, outsideAp, obs, abortMark, gotoCount>>

\* self._plan.status = RUNNING
Resume182 ==
    /\ cpc = "resume_182"
    /\ pstatus' = [pstatus EXCEPT ![cur] = "RUNNING"]
    /\ cpc' = "idle"
    /\ Returned("other")
    /\ UNCHANGED <<cur, stopEv, pindex, wstat, workerVars, carg, is_flying,
                   ploop, outsideAp, obs, abortMark, gotoCount>>

\* ----------------------------------------------------------------- abort
\* abort(), line 185
CallAbort ==
    /\ cpc = "idle"
    /\ cpc' = IF cur # NoPlan THEN "abort_186" ELSE "abort_187"
    /\ UNCHANGED <<cur, stopEv, planVars, workerVars, carg, is_flying, ploop, outsideAp, histVars>>

\* self._plan.status = ABORTED
Abort186 ==
    /\ cpc = "abort_186"
    /\ pstatus' = [pstatus EXCEPT ![cur] = "ABORTED"]
    /\ abortMark' = IF obs = "abort"
                       THEN <<cur, {i \in WpIdx : wstat[cur][i] = "ACTIVE"}>>
                       ELSE abortMark
    /\ cpc' = "abort_187"
    /\ UNCHANGED <<cur, stopEv, pindex, wstat, workerVars, carg, is_flying,
                   ploop, outsideAp, obs, last, gotoCount>>

\* self._stop_event.set()
Abort187 ==
    /\ cpc = "abort_187"
    /\ stopEv' = TRUE
    /\ cpc' = "idle"
    /\ Returned("other")
    /\ UNCHANGED <<cur, planVars, workerVars, carg, is_flying,
                   ploop, outsideAp, obs, abortMark, gotoCount>>

\* ------------------------------------------------------------ _run worker
\* break: the thread ends and drops its reference to the plan.  ps is
\* plan.status as this step leaves it.
WorkerExit(w, ps) ==
    /\ wpc' = [wpc EXCEPT ![w] = "dead"]
    /\ wplan' = [wplan EXCEPT ![w] = NoPlan]
    /\ widx' = [widx EXCEPT ![w] = 0]
    /\ wsucc' = [wsucc EXCEPT ![w] = FALSE]
    /\ Collect(ps, cur, [wplan EXCEPT ![w] = NoPlan], carg)

Goto(w, line) ==
    /\ wpc' = [wpc EXCEPT ![w] = line]
    /\ UNCHANGED <<wplan, widx, wsucc>>

Stay(w, line) ==
    /\ Goto(w, line)
    /\ UNCHANGED <<planVars, abortMark, gotoCount>>

\* plan = self._plan
Run190(w) ==
    /\ wpc[w] = "L190"
    /\ wpc' = [wpc EXCEPT ![w] = "L192"]
    /\ wplan' = [wplan EXCEPT ![w] = cur]
    /\ UNCHANGED <<widx, wsucc, cur, stopEv, planVars, callerVars, is_flying, ploop, outsideAp, histVars>>

\* if self._stop_event.is_set(): break
Run192(w) ==
    /\ wpc[w] = "L192"
    /\ IF stopEv THEN WorkerExit(w, pstatus) ELSE Stay(w, "L195")
    /\ UNCHANGED <<cur, stopEv, callerVars, is_flying, ploop, outsideAp, obs, last>>

\* if plan.status == PAUSED: sleep(0.2); continue
Run195(w) ==
    /\ wpc[w] = "L195"
    /\ IF pstatus[wplan[w]] = "PAUSED" THEN Goto(w, "L192") ELSE Goto(w, "L199")
    /\ UNCHANGED <<cur, stopEv, planVars, callerVars, is_flying, ploop, outsideAp, histVars>>

\* if plan.status != RUNNING: break
Run199(w) ==
    /\ wpc[w] = "L199"
    /\ IF pstatus[wplan[w]] # "RUNNING" THEN WorkerExit(w, pstatus) ELSE Stay(w, "L202")
    /\ UNCHANGED <<cur, stopEv, callerVars, is_flying, ploop, outsideAp, obs, last>>

\* Where the worker goes after reading idx = plan.current_index.
AfterIdx(p, idx) ==
    IF idx >= PlanLen(p)
      THEN (IF Loop(p) THEN "L205" ELSE "L210")
      ELSE "L214"

\* idx = plan.current_index; if idx >= len(plan.waypoints): ...
Run202(w) ==
    /\ wpc[w] = "L202"
    /\ widx' = [widx EXCEPT ![w] = pindex[wplan[w]]]
    /\ wpc' = [wpc EXCEPT ![w] = AfterIdx(wplan[w], pindex[wplan[w]])]
    /\ UNCHANGED <<wplan, wsucc, cur, stopEv, planVars, callerVars, is_flying, ploop, outsideAp, histVars>>

\* plan.current_index = 0
Run205(w) ==
    /\ wpc[w] = "L205"
    /\ pindex' = [pindex EXCEPT ![wplan[w]] = 0]
    /\ wpc' = [wpc EXCEPT ![w] = "L206"]
    /\ widx' = [widx EXCEPT ![w] = 0]
    /\ UNCHANGED <<wplan, wsucc, cur, stopEv, pstatus, wstat, callerVars, is_flying,
                   ploop, outsideAp, histVars>>

\* for wp in plan.waypoints: wp.status = PENDING; continue
Run206(w) ==
    /\ wpc[w] = "L206"
    /\ wstat' = [wstat EXCEPT ![wplan[w]] = AllPending]
    /\ gotoCount' = IF obs = "goto" THEN [gotoCount EXCEPT ![wplan[w]] = ZeroCount]
                                    ELSE gotoCount
    /\ Goto(w, "L192")
    /\ UNCHANGED <<cur, stopEv, pstatus, pindex, callerVars, is_flying,
                   ploop, outsideAp, obs, last, abortMark>>

\* plan.status = COMPLETED; break
Run210(w) ==
    /\ wpc[w] = "L210"
    /\ WorkerExit(w, [pstatus EXCEPT ![wplan[w]] = "COMPLETED"])
    /\ UNCHANGED <<cur, stopEv, callerVars, is_flying, ploop, outsideAp, obs, last>>

\* wp = plan.waypoints[idx]; wp.status = ACTIVE
Run214(w) ==
    /\ wpc[w] = "L214"
    /\ wstat' = [wstat EXCEPT ![wplan[w]][widx[w]] = "ACTIVE"]
    /\ Goto(w, "L216")
    /\ UNCHANGED <<cur, stopEv, pstatus, pindex, callerVars, is_flying, ploop, outsideAp, histVars>>

\* The drone accepts a go_to only while flying (SimulatedDrone.go_to).
GoToAccepted == is_flying

\* success = self._drone.go_to(...): the call.  A refused go_to returns False
\* at once; an accepted one blocks (pc "InGoTo") until GoToReturn.
Run216(w) ==
    /\ wpc[w] = "L216"
    /\ gotoCount' = IF obs = "goto"
                       THEN [gotoCount EXCEPT ![wplan[w]][widx[w]] = Bump(@)]
                       ELSE gotoCount
    /\ IF GoToAccepted
         THEN /\ wpc' = [wpc EXCEPT ![w] = "InGoTo"]
              /\ UNCHANGED wsucc
         ELSE /\ wpc' = [wpc EXCEPT ![w] = "L218"]
              /\ wsucc' = [wsucc EXCEPT ![w] = FALSE]
    /\ UNCHANGED <<wplan, widx, cur, stopEv, planVars, callerVars, is_flying,
                   ploop, outsideAp, obs, last, abortMark>>

\* The blocking go_to returns True.
GoToReturn(w) ==
    /\ wpc[w] = "InGoTo"
    /\ wpc' = [wpc EXCEPT ![w] = "L218"]
    /\ wsucc' = [wsucc EXCEPT ![w] = TRUE]
    /\ UNCHANGED <<wplan, widx, cur, stopEv, planVars, callerVars, is_flying, ploop, outsideAp, histVars>>

\* if self._stop_event.is_set(): break
Run218(w) ==
    /\ wpc[w] = "L218"
    /\ IF stopEv THEN WorkerExit(w, pstatus) ELSE Stay(w, "L221")
    /\ UNCHANGED <<cur, stopEv, callerVars, is_flying, ploop, outsideAp, obs, last>>

\* A worker that would mark every waypoint REACHED.
OutcomeAlwaysReached(success) == "REACHED"

\* The status a waypoint gets from the result of its go_to.
Outcome(success) == IF success THEN "REACHED" ELSE "SKIPPED"

\* wp.status = REACHED (then the hover sleep) / SKIPPED
Run221(w) ==
    /\ wpc[w] = "L221"
    /\ wstat' = [wstat EXCEPT ![wplan[w]][widx[w]] = Outcome(wsucc[w])]
    /\ wpc' = [wpc EXCEPT ![w] = "L228"]
    /\ wsucc' = [wsucc EXCEPT ![w] = FALSE]
    /\ UNCHANGED <<wplan, widx, cur, stopEv, pstatus, pindex, callerVars, is_flying,
                   ploop, outsideAp, histVars>>

\* A worker that would step over the next waypoint.
NextIndexSkipping(idx) == idx + 2

\* The value the worker stores to plan.current_index after a waypoint.
NextIndex(idx) == idx + 1

\* plan.current_index = idx + 1
Run228(w) ==
    /\ wpc[w] = "L228"
    /\ pindex' = [pindex EXCEPT ![wplan[w]] = NextIndex(widx[w])]
    /\ wpc' = [wpc EXCEPT ![w] = "L192"]
    /\ widx' = [widx EXCEPT ![w] = 0]
    /\ UNCHANGED <<wplan, wsucc, cur, stopEv, pstatus, wstat, callerVars, is_flying,
                   ploop, outsideAp, histVars>>

WorkerStep(w) ==
    \/ Run190(w) \/ Run192(w) \/ Run195(w) \/ Run199(w) \/ Run202(w)
    \/ Run205(w) \/ Run206(w) \/ Run210(w) \/ Run214(w) \/ Run216(w)
    \/ GoToReturn(w) \/ Run218(w) \/ Run221(w) \/ Run228(w)

\* The drone takes off or lands while the autopilot runs (takeoff / land
\* write is_flying under the drone's lock).
DroneFlightChange ==
    /\ is_flying' = ~is_flying
    /\ UNCHANGED <<cur, stopEv, planVars, workerVars, callerVars, ploop, outsideAp, histVars>>

\* The steps of a request in progress.
ApiRun ==
    \/ Load159 \/ Load160 \/ Load161 \/ Load162
    \/ Start171 \/ Start172 \/ Start173
    \/ Pause178 \/ Resume182
    \/ Abort186 \/ Abort187

\* A new request arrives.
ApiCall ==
    \/ \E p \in Plans : CallLoad(p)
    \/ CallStart \/ CallPause \/ CallResume \/ CallAbort

ApiStep == ApiCall \/ ApiRun

\* Every thread that can run is eventually scheduled: a worker takes its next
\* step (a blocking go_to returns), a request in progress runs on.
Fair ==
    /\ \A w \in Workers : WF_vars(WorkerStep(w))
    /\ WF_vars(ApiRun)

\* ======================================================= SimulatedDrone
\* Positions are in centimetres, held as integers: the inputs the model
\* draws keep every position the code computes whole (WholeValues below
\* states it).  Times are in milliseconds, battery and temperature in units
\* of 1/PowerScale percent and degree.  Control requests (connect, takeoff,
\* land, emergency_stop, disconnect, send_rc, set_speed) run in the caller
\* threads, a motion request (move, rotate, go_to) in one more thread, beside
\* the RC integrator threads; a `with self._lock` block is one step.
\*
\* yaw is a float that the code sums and reduces modulo 360.  It is held as
\* n (thousandths of a degree, the exact sum of the terms added) and e, the
\* sign of the float's deviation from n: a float sum with an inexact operand
\* may round either way, so e is then any of -1, 0, 1.

MOVE_SPEED == 50
HoverZ == 80
PowerScale == 2000
FullBattery == 100 * PowerScale
StartTemperature == 25 * PowerScale
MaxTemperature == 45 * PowerScale
FullTurn == 360 * 1000
TickMs == 50

Callers == 1 .. MaxCallers
RcThreads == 1 .. MaxRc
Axes == 1 .. 3
ZeroRc == <<0, 0, 0, 0>>
ZeroYaw == [n |-> 0, e |-> 0]
NoLocals == [dir |-> "", a |-> <<0, 0, 0>>, t |-> <<0, 0, 0>>, v |-> 0, n |-> 0,
             i |-> 0, ms |-> 0]

Max(a, b) == IF a >= b THEN a ELSE b
Min(a, b) == IF a <= b THEN a ELSE b
Abs(a) == IF a >= 0 THEN a ELSE -a

\* max(-100, min(100, v))
Clamp(v) == Max(-100, Min(100, v))

\* math.cos / math.sin of a yaw, for the yaw whose value is exact.
CosDeg(yw) == CASE yw = ZeroYaw -> 1
SinDeg(yw) == CASE yw = ZeroYaw -> 0

\* math.sqrt, rounded down (exact on the squares the model meets).
ISqrt(n) == CHOOSE k \in 0 .. MaxRoot : k * k <= n /\ n < (k + 1) * (k + 1)

Pos(s) == <<s.x, s.y, s.z>>

\* The floats yaw + d can be, d in thousandths of a degree: adding 0.0
\* changes nothing, a sum with 0.0 is the other term, two whole numbers add
\* exactly, any other sum is rounded.
YawSums(yw, d, whole) ==
    IF d = 0 THEN {yw}
    ELSE IF yw = ZeroYaw THEN {[n |-> d, e |-> 0]}
    ELSE IF whole /\ yw.e = 0 /\ yw.n % 1000 = 0
      THEN {[n |-> yw.n + d, e |-> 0]}
      ELSE {[n |-> yw.n + d, e |-> s] : s \in {-1, 0, 1}}

\* v % 360 on floats: the result takes the sign of 360, so a negative
\* remainder r becomes r + 360, and that sum rounds to 360.0 when r is
\* smaller than half a unit in the last place of 360; a v just below a
\* positive multiple of 360 stays just below 360.
Mod360(yw) ==
    LET m == yw.n % FullTurn
    IN  IF m = 0 /\ yw.e = -1
          THEN (IF yw.n = 0 THEN [n |-> FullTurn, e |-> 0]
                            ELSE [n |-> FullTurn, e |-> -1])
          ELSE [n |-> m, e |-> yw.e]

\* _drain_battery(seconds), lines 191-192.  Battery and temperature are read
\* by nothing but this function, so a specification whose claims do not
\* mention them runs with the meter off.
Drained(s, ms) ==
    IF obs = "power"
      THEN [s EXCEPT !.battery = Max(0, @ - (ms * PowerScale) \div 2000),
                     !.temperature = Min(MaxTemperature,
                                         @ + (ms * PowerScale) \div 10000)]
      ELSE s

SimInit ==
    /\ state = [x |-> 0, y |-> 0, z |-> 0, yaw |-> ZeroYaw, speed |-> 0,
                battery |-> FullBattery, temperature |-> StartTemperature,
                is_connected |-> FALSE]
    /\ speed_setting = MOVE_SPEED
    /\ rc_active = FALSE
    /\ rc_values = ZeroRc
    /\ rpc = [r \in RcThreads |-> "dead"]
    /\ rloc = [r \in RcThreads |-> ZeroRc]
    /\ spc = [c \in Callers |-> "idle"]
    /\ mpc = "idle"
    /\ mloc = NoLocals
    /\ grounded = FALSE

\* A step of the drone that returns nothing to a caller, and one that
\* returns `what`.
SimQuiet == UNCHANGED <<autopilotVars, telloVars, envVars, navVars>>
SimReturn(what) ==
    /\ Returned(what)
    /\ UNCHANGED <<apButLast, telloVars, envVars, navVars>>

At(c, line) == spc[c] = line
To(c, line) == spc' = [spc EXCEPT ![c] = line]

\* ---------------------------------------------------- control requests
\* connect(): lines 37-42
Connect(c) ==
    /\ At(c, "idle")
    /\ state' = [state EXCEPT !.is_connected = TRUE, !.battery = FullBattery,
                              !.temperature = StartTemperature]
    /\ SimReturn("connect_true")
    /\ UNCHANGED <<is_flying, speed_setting, rcVars, rcThreadVars, spc, motionVars,
                   grounded>>

\* takeoff(), lines 51-57: the locked block.  (A takeoff that may need more
\* integrator threads than the model has is not issued.)
TakeoffRefused == ~state.is_connected \/ is_flying

CallTakeoff(c) ==
    /\ At(c, "idle")
    /\ \E r \in RcThreads : rpc[r] = "dead"
    /\ IF TakeoffRefused
         THEN /\ SimReturn("takeoff_false")
              /\ UNCHANGED <<state, is_flying, spc, grounded>>
         ELSE /\ is_flying' = TRUE
              /\ state' = [state EXCEPT !.z = HoverZ]
              /\ To(c, "start_195")
              /\ grounded' = FALSE
              /\ SimQuiet
    /\ UNCHANGED <<speed_setting, rcVars, rcThreadVars, motionVars>>

\* _start_rc_loop(): if self._rc_active: return
StartRc195(c) ==
    /\ At(c, "start_195")
    /\ IF rc_active
         THEN To(c, "idle") /\ SimReturn("takeoff_true")
         ELSE To(c, "start_197") /\ SimQuiet
    /\ UNCHANGED <<state, is_flying, speed_setting, rcVars, rcThreadVars, motionVars,
                   grounded>>

\* self._rc_active = True
StartRc197(c) ==
    /\ At(c, "start_197")
    /\ rc_active' = TRUE
    /\ To(c, "start_198")
    /\ SimQuiet
    /\ UNCHANGED <<state, is_flying, speed_setting, rc_values, rcThreadVars,
                   motionVars, grounded>>

\* self._rc_thread = Thread(target=self._rc_loop); start(); return True.
\* (The caller waits while the model has no integrator thread left.)
StartRc198(c) ==
    /\ At(c, "start_198")
    /\ \E r \in RcThreads :
         /\ rpc[r] = "dead"
         /\ \A q \in RcThreads : q < r => rpc[q] # "dead"
         /\ rpc' = [rpc EXCEPT ![r] = "L208"]
    /\ To(c, "idle")
    /\ SimReturn("takeoff_true")
    /\ UNCHANGED <<state, is_flying, speed_setting, rcVars, rloc, motionVars,
                   grounded>>

\* _stop_rc_loop(), line 202: self._rc_active = False
StopRc202(c, from, to) ==
    /\ At(c, from)
    /\ rc_active' = FALSE
    /\ To(c, to)
    /\ SimQuiet
    /\ UNCHANGED <<state, is_flying, speed_setting, rc_values, rcThreadVars,
                   motionVars, grounded>>

\* _stop_rc_loop(), line 203: self._rc_values = [0, 0, 0, 0]
StopRc203(c, from, to) ==
    /\ At(c, from)
    /\ rc_values' = ZeroRc
    /\ To(c, to)
    /\ SimQuiet
    /\ UNCHANGED <<state, is_flying, speed_setting, rc_active, rcThreadVars,
                   motionVars, grounded>>

\* The fields land() and emergency_stop() write.
Stopped(s) == [s EXCEPT !.z = 0, !.speed = 0]

\* land(): the call
CallLand(c) ==
    /\ At(c, "idle")
    /\ To(c, "land_202")
    /\ SimQuiet
    /\ UNCHANGED <<state, is_flying, speed_setting, rcVars, rcThreadVars, motionVars,
                   grounded>>

Land202(c) == StopRc202(c, "land_202", "land_203")
Land203(c) == StopRc203(c, "land_203", "land_63")

\* land(), lines 63-73
Land63(c) ==
    /\ At(c, "land_63")
    /\ IF ~is_flying
         THEN /\ SimReturn("land_false")
              /\ UNCHANGED <<state, is_flying, grounded>>
         ELSE /\ is_flying' = FALSE
              /\ state' = Stopped(state)
              /\ grounded' = TRUE
              /\ SimReturn("land_true")
    /\ To(c, "idle")
    /\ UNCHANGED <<speed_setting, rcVars, rcThreadVars, motionVars>>

\* emergency_stop(), lines 77-84: the locked block
Stop77(c, from, to) ==
    /\ At(c, from)
    /\ is_flying' = FALSE
    /\ state' = Stopped(state)
    /\ grounded' = TRUE
    /\ To(c, to)
    /\ IF to = "idle" THEN SimReturn("emergency_done") ELSE SimQuiet
    /\ UNCHANGED <<speed_setting, rcVars, rcThreadVars, motionVars>>

\* emergency_stop(): the call
CallEmergencyStop(c) ==
    /\ At(c, "idle")
    /\ To(c, "stop_202")
    /\ SimQuiet
    /\ UNCHANGED <<state, is_flying, speed_setting, rcVars, rcThreadVars, motionVars,
                   grounded>>

Emergency202(c) == StopRc202(c, "stop_202", "stop_203")
Emergency203(c) == StopRc203(c, "stop_203", "stop_77")
Emergency77(c) == Stop77(c, "stop_77", "idle")

\* disconnect(): self.emergency_stop(), then lines 46-48
CallDisconnect(c) ==
    /\ At(c, "idle")
    /\ To(c, "disc_202")
    /\ SimQuiet
    /\ UNCHANGED <<state, is_flying, speed_setting, rcVars, rcThreadVars, motionVars,
                   grounded>>

Disconnect202(c) == StopRc202(c, "disc_202", "disc_203")
Disconnect203(c) == StopRc203(c, "disc_203", "disc_77")
Disconnect77(c) == Stop77(c, "disc_77", "disc_46")

Disconnect46(c) ==
    /\ At(c, "disc_46")
    /\ state' = [state EXCEPT !.is_connected = FALSE]
    /\ To(c, "idle")
    /\ SimReturn("disconnect_done")
    /\ UNCHANGED <<is_flying, speed_setting, rcVars, rcThreadVars, motionVars,
                   grounded>>

\* send_rc(lr, fb, ud, yaw): lines 141-146
SendRc(c, t) ==
    /\ At(c, "idle")
    /\ rc_values' = [k \in 1 .. 4 |-> Clamp(t[k])]
    /\ SimReturn("send_rc_done")
    /\ UNCHANGED <<state, is_flying, speed_setting, rc_active, rcThreadVars, spc,
                   motionVars, grounded>>

\* set_speed(speed_cm_s): lines 135-137
SetSpeed(c, v) ==
    /\ At(c, "idle")
    /\ speed_setting' = Max(10, Min(100, v))
    /\ SimReturn("set_speed_true")
    /\ UNCHANGED <<state, is_flying, rcVars, rcThreadVars, spc, motionVars, grounded>>

\* ----------------------------------------------------- motion requests
Directions == {"forward", "back", "left", "right", "up", "down"}

\* move(), lines 91-109: dx, dy, dz from the direction and the yaw read
MoveDelta(dir, d, yw) ==
    CASE dir = "forward" -> <<d * CosDeg(yw), d * SinDeg(yw), 0>>
      [] dir = "back" -> <<-d * CosDeg(yw), -d * SinDeg(yw), 0>>
      [] dir = "left" -> <<d * SinDeg(yw), -d * CosDeg(yw), 0>>
      [] dir = "right" -> <<-d * SinDeg(yw), d * CosDeg(yw), 0>>
      [] dir = "up" -> <<0, 0, d>>
      [] dir = "down" -> <<0, 0, -d>>

\* move(direction, distance_cm), lines 87-89: the flying check under the lock
CallMove(dir, d) ==
    /\ mpc = "idle"
    /\ IF ~is_flying
         THEN /\ SimReturn("move_false")
              /\ UNCHANGED motionVars
         ELSE /\ mpc' = "move_91"
              /\ mloc' = [NoLocals EXCEPT !.dir = dir, !.v = d]
              /\ SimQuiet
    /\ UNCHANGED <<state, is_flying, speed_setting, rcVars, rcThreadVars, spc,
                   grounded>>

\* move(), lines 91-114: the yaw and the speed setting are read without the
\* lock; an unknown direction returns False; duration = distance / speed,
\* then the simulated delay, where time.sleep raises ValueError for a
\* negative duration
Move91 ==
    /\ mpc = "move_91"
    /\ IF mloc.dir \in Directions /\ mloc.v >= 0
         THEN /\ mloc' = [mloc EXCEPT !.a = MoveDelta(mloc.dir, mloc.v, state.yaw),
                                      !.ms = (mloc.v * 1000) \div speed_setting]
              /\ mpc' = "move_116"
              /\ SimQuiet
         ELSE /\ mloc' = NoLocals
              /\ mpc' = "idle"
              /\ SimReturn(IF mloc.dir \in Directions THEN "move_raised"
                                                      ELSE "move_false")
    /\ UNCHANGED <<state, is_flying, speed_setting, rcVars, rcThreadVars, spc,
                   grounded>>

\* move(), lines 116-122: the position update under the lock.  (An update
\* that would leave the modelled range waits.)
Move116 ==
    /\ mpc = "move_116"
    /\ Abs(state.x + mloc.a[1]) <= MaxPos
    /\ Abs(state.y + mloc.a[2]) <= MaxPos
    /\ state.z + mloc.a[3] <= MaxAlt
    /\ state' = Drained([state EXCEPT !.x = @ + mloc.a[1],
                                      !.y = @ + mloc.a[2],
                                      !.z = Max(0, @ + mloc.a[3])], mloc.ms)
    /\ mpc' = "idle"
    /\ mloc' = NoLocals
    /\ SimReturn("move_true")
    /\ UNCHANGED <<is_flying, speed_setting, rcVars, rcThreadVars, spc, grounded>>

\* rotate(degrees), lines 125-132: the locked block; the delay follows
CallRotate(deg) ==
    /\ mpc = "idle"
    /\ IF ~is_flying
         THEN /\ SimReturn("rotate_false")
              /\ UNCHANGED state
         ELSE /\ \E yw \in YawSums(state.yaw, deg * 1000, TRUE) :
                   state' = [state EXCEPT !.yaw = Mod360(yw)]
              /\ SimReturn("rotate_true")
    /\ UNCHANGED <<is_flying, speed_setting, rcVars, rcThreadVars, spc, motionVars,
                   grounded>>

\* (x - sx) ** 2 + (y - sy) ** 2 + (z - sz) ** 2
Dist2(s, t) == (t[1] - s[1]) * (t[1] - s[1]) + (t[2] - s[2]) * (t[2] - s[2])
                 + (t[3] - s[3]) * (t[3] - s[3])

\* steps = max(int(duration * 10), 1), duration = dist / max(speed, 10):
\* int(10 * sqrt(d2) / m) is the largest k with (k * m)^2 <= 100 * d2.
Steps(d2, speed) ==
    LET m == Max(speed, 10)
        k == CHOOSE j \in 0 .. MaxSteps :
               /\ j * j * m * m <= 100 * d2
               /\ (j = MaxSteps \/ (j + 1) * (j + 1) * m * m > 100 * d2)
    IN  Max(k, 1)

\* dt = duration / steps, in milliseconds
StepMs(d2, speed) == (ISqrt(d2) * 1000) \div (Max(speed, 10) * Steps(d2, speed))

\* An interpolation that lags one substep behind.
LerpLagging(s, t, i, n) == s + ((t - s) * (i - 1)) \div n

\* sx + (x - sx) * frac, frac = i / steps
Lerp(s, t, i, n) == s + ((t - s) * i) \div n

\* go_to(x, y, z, speed), lines 161-172: the flying check and the start
\* position under the lock, then dist, duration and steps
CallGoTo(t, v) ==
    /\ mpc = "idle"
    /\ IF ~is_flying \/ Dist2(Pos(state), t) < 1
         THEN /\ SimReturn(IF ~is_flying THEN "go_to_false" ELSE "go_to_true")
              /\ UNCHANGED motionVars
         ELSE /\ mpc' = "goto_177"
              /\ mloc' = [NoLocals EXCEPT !.a = Pos(state), !.t = t, !.v = v,
                                          !.n = Steps(Dist2(Pos(state), t), v),
                                          !.ms = StepMs(Dist2(Pos(state), t), v),
                                          !.i = 1]
              /\ SimQuiet
    /\ UNCHANGED <<state, is_flying, speed_setting, rcVars, rcThreadVars, spc,
                   grounded>>

\* go_to(), lines 174-182: one pass of the loop (the sleep, then the locked
\* block)
GoTo177 ==
    /\ mpc = "goto_177"
    /\ state' = Drained([state EXCEPT
                           !.x = Lerp(mloc.a[1], mloc.t[1], mloc.i, mloc.n),
                           !.y = Lerp(mloc.a[2], mloc.t[2], mloc.i, mloc.n),
                           !.z = Max(0, Lerp(mloc.a[3], mloc.t[3], mloc.i, mloc.n)),
                           !.speed = mloc.v], mloc.ms)
    /\ IF mloc.i = mloc.n
         THEN mpc' = "goto_184" /\ mloc' = [NoLocals EXCEPT !.t = mloc.t]
         ELSE mpc' = mpc /\ mloc' = [mloc EXCEPT !.i = @ + 1]
    /\ SimQuiet
    /\ UNCHANGED <<is_flying, speed_setting, rcVars, rcThreadVars, spc, grounded>>

\* go_to(), lines 184-185: the log entry, outside the lock, and return True
GoTo184 ==
    /\ mpc = "goto_184"
    /\ mpc' = "idle"
    /\ mloc' = NoLocals
    /\ SimReturn("go_to_true")
    /\ UNCHANGED <<state, is_flying, speed_setting, rcVars, rcThreadVars, spc,
                   grounded>>

\* ------------------------------------------------------- RC integrator
\* v * scale, scale = self._speed * interval / 100.0, interval = 0.05
RcStep(v, sp) == (v * sp * TickMs) \div 100000

\* yaw_rate * 0.9 * interval, in thousandths of a degree
YawStep(rate) == (rate * 9 * TickMs) \div 10

\* fb * cos(rad) - lr * sin(rad) and fb * sin(rad) + lr * cos(rad); with both
\* sticks at 0 the value is 0 for every yaw.
Planar(lr, fb, yw) ==
    IF lr = 0 /\ fb = 0
      THEN <<0, 0>>
      ELSE <<fb * CosDeg(yw) - lr * SinDeg(yw), fb * SinDeg(yw) + lr * CosDeg(yw)>>

\* The states after one integrator tick with the tuple t (lines 213-222).
Integrate(s, t, sp) ==
    {Drained([s EXCEPT
                !.x = @ + RcStep(Planar(t[1], t[2], s.yaw)[1], sp),
                !.y = @ + RcStep(Planar(t[1], t[2], s.yaw)[2], sp),
                !.z = Max(0, @ + RcStep(t[3], sp)),
                !.yaw = Mod360(yw),
                !.speed = (ISqrt(t[1] * t[1] + t[2] * t[2] + t[3] * t[3]) * sp)
                            \div 100], TickMs) :
       yw \in YawSums(s.yaw, YawStep(t[4]), FALSE)}

\* while self._rc_active:
Rc208(r) ==
    /\ rpc[r] = "L208"
    /\ rpc' = [rpc EXCEPT ![r] = IF rc_active THEN "L209" ELSE "dead"]
    /\ SimQuiet
    /\ UNCHANGED <<state, is_flying, speed_setting, rcVars, rloc, spc, motionVars,
                   grounded>>

\* lr, fb, ud, yaw_rate = self._rc_values
Rc209(r) ==
    /\ rpc[r] = "L209"
    /\ rloc' = [rloc EXCEPT ![r] = rc_values]
    /\ rpc' = [rpc EXCEPT ![r] = "L210"]
    /\ SimQuiet
    /\ UNCHANGED <<state, is_flying, speed_setting, rcVars, spc, motionVars,
                   grounded>>

\* The locked block of lines 210-223 without the test of line 211.
Rc210Unchecked(r) ==
    /\ rpc[r] = "L210"
    /\ \E s \in Integrate(state, rloc[r], speed_setting) :
         /\ Abs(s.x) <= MaxPos
         /\ Abs(s.y) <= MaxPos
         /\ s.z <= MaxAlt
         /\ state' = s
    /\ rpc' = [rpc EXCEPT ![r] = "L208"]
    /\ rloc' = [rloc EXCEPT ![r] = ZeroRc]
    /\ UNCHANGED <<autopilotVars, telloVars, rc_input, ticks, cast, avoid, navVars>>
    /\ UNCHANGED <<is_flying, speed_setting, rcVars, spc, motionVars, grounded>>

\* lines 210-223: the locked block (break when not flying), then the sleep.
\* (An update that would leave the modelled range waits, and so does a tick
\* beyond MaxTicks while the battery meter is on.)
Rc210(r) ==
    /\ rpc[r] = "L210"
    /\ IF ~is_flying
         THEN /\ rpc' = [rpc EXCEPT ![r] = "dead"]
              /\ UNCHANGED <<state, ticks>>
         ELSE /\ obs = "power" => ticks < MaxTicks
              /\ \E s \in Integrate(state, rloc[r], speed_setting) :
                   /\ Abs(s.x) <= MaxPos
                   /\ Abs(s.y) <= MaxPos
                   /\ s.z <= MaxAlt
                   /\ state' = s
              /\ ticks' = IF obs = "power" THEN ticks + 1 ELSE ticks
              /\ rpc' = [rpc EXCEPT ![r] = "L208"]
    /\ rloc' = [rloc EXCEPT ![r] = ZeroRc]
    /\ UNCHANGED <<autopilotVars, telloVars, rc_input, cast, avoid, navVars>>
    /\ UNCHANGED <<is_flying, speed_setting, rcVars, spc, motionVars, grounded>>

RcThreadStep(r) == Rc208(r) \/ Rc209(r) \/ Rc210(r)

\* Every value the code computes in floating point, but yaw, is whole in
\* the model.
WholeValues ==
    /\ mpc = "goto_177"
         => /\ \A k \in Axes : ((mloc.t[k] - mloc.a[k]) * mloc.i) % mloc.n = 0
            /\ obs = "power"
                 => LET d2 == Dist2(mloc.a, mloc.t)
                    IN  /\ ISqrt(d2) * ISqrt(d2) = d2
                        /\ (ISqrt(d2) * 1000) % (Max(mloc.v, 10) * mloc.n) = 0
    /\ mpc = "move_116" => (mloc.v * 1000) % speed_setting = 0
    /\ \A r \in RcThreads :
         rpc[r] = "L210"
           => /\ \A k \in 1 .. 3 : (rloc[r][k] * speed_setting * TickMs) % 100000 = 0
              /\ \E j \in 0 .. MaxRoot :
                   /\ j * j = rloc[r][1] * rloc[r][1] + rloc[r][2] * rloc[r][2]
                                + rloc[r][3] * rloc[r][3]
                   /\ (j * speed_setting) % 100 = 0

\* =========================================================== TelloDrone
\* The hardware adapter.  A request is sent as one datagram; the device's
\* replies queue in the command socket (tinbox) and recvfrom takes the
\* oldest, or times out when none is there.  The device answers the commands
\* it received (twire) in order, with "ok" or "error", or not at all.
\* tsock is self._cmd_socket: "none" before the first connect(), "open", or
\* "closed" after disconnect().

NoCmd == <<"none">>
Idle == [op |-> "idle", at |-> "idle", arg |-> NoCmd, resp |-> "none"]
Replies == {"ok", "error"}

TelloInit ==
    /\ tstate = [is_connected |-> FALSE, is_flying |-> FALSE]
    /\ tsock = "none"
    /\ trunning = FALSE
    /\ treq = [c \in Callers |-> Idle]
    /\ twire = <<>>
    /\ tinbox = <<>>
    /\ tser = [next |-> 0, wire |-> <<>>, inbox |-> <<>>,
               mine |-> [c \in Callers |-> 0], got |-> [c \in Callers |-> 0]]

\* The bookkeeping of datagram numbers, switched on by obs = "acks".
Numbered(new) == tser' = IF obs = "acks" THEN new ELSE tser

\* A step of the adapter that returns nothing to a caller, and one that
\* returns `what`.
TelloQuiet == UNCHANGED <<autopilotVars, is_flying, simVars, envVars, navVars>>
TelloReturn(what) ==
    /\ Returned(what)
    /\ UNCHANGED <<apButLast, is_flying, simVars, envVars, navVars>>

\* The datagram of a request: the command text, as a tuple.
\* send_rc (line 105) formats its four arguments as they are.
Datagram(op, arg) == IF op = "rc" THEN <<"rc">> \o arg ELSE <<op>>

\* "ok" in resp.lower()
Acked(resp) == resp = "ok"

\* A request is called: takeoff(), land(), emergency_stop() and
\* send_rc(...) go straight to _send_command.
TelloCall(c, op, arg) ==
    /\ treq[c] = Idle
    /\ treq' = [treq EXCEPT ![c] = [op |-> op, at |-> "send", arg |-> arg,
                                    resp |-> "none"]]
    /\ TelloQuiet
    /\ UNCHANGED <<tstate, tsock, trunning, twire, tinbox, tser>>

\* connect(), lines 29-35: new sockets are made and bound.  With the old
\* command socket still open the port is taken: bind raises OSError and
\* connect returns False, the new unbound socket in place.
TelloConnect29(c) ==
    /\ treq[c] = Idle
    /\ tinbox' = <<>>
    /\ tsock' = "open"
    /\ IF tsock = "open"
         THEN /\ TelloReturn("connect_false")
              /\ UNCHANGED treq
         ELSE /\ treq' = [treq EXCEPT ![c] = [op |-> "command", at |-> "send",
                                              arg |-> NoCmd, resp |-> "none"]]
              /\ TelloQuiet
    /\ Numbered([tser EXCEPT !.inbox = <<>>])
    /\ UNCHANGED <<tstate, trunning, twire>>

\* _send_command, lines 125-130: sendto.  Without a socket the attribute
\* lookup on None raises AttributeError, which the except clause (OSError,
\* TimeoutError) does not catch; on a closed socket sendto raises OSError and
\* the result is None.  (A datagram waits while the model's wire is full.)
TelloSend(c) ==
    /\ treq[c].at = "send"
    /\ CASE tsock = "none" ->
              /\ treq' = [treq EXCEPT ![c] = Idle]
              /\ TelloReturn(treq[c].op \o "_raised")
              /\ UNCHANGED <<twire, tser>>
         [] tsock = "closed" ->
              /\ treq' = [treq EXCEPT ![c].at = "after", ![c].resp = "none"]
              /\ TelloQuiet
              /\ UNCHANGED <<twire, tser>>
         [] tsock = "open" ->
              /\ Len(twire) < MaxWire
              /\ obs = "acks" => tser.next < MaxSent
              /\ Numbered([tser EXCEPT !.next = @ + 1,
                                       !.wire = Append(@, tser.next + 1),
                                       !.mine[c] = tser.next + 1])
              /\ twire' = Append(twire, Datagram(treq[c].op, treq[c].arg))
              /\ treq' = [treq EXCEPT ![c].at = IF treq[c].op = "rc" THEN "after"
                                                                   ELSE "recv",
                                      ![c].resp = IF treq[c].op = "rc" THEN "ok"
                                                                     ELSE "none"]
              /\ TelloQuiet
    /\ UNCHANGED <<tstate, tsock, trunning, tinbox>>

\* _send_command, lines 131-134: recvfrom returns the oldest reply, or raises
\* on a closed socket or after TIMEOUT with no reply: the result is None.
TelloRecv(c) ==
    /\ treq[c].at = "recv"
    /\ IF tsock = "open" /\ tinbox # <<>>
         THEN /\ treq' = [treq EXCEPT ![c].at = "after", ![c].resp = Head(tinbox)]
              /\ tinbox' = Tail(tinbox)
              /\ Numbered([tser EXCEPT !.inbox = Tail(@),
                                       !.got[c] = Head(tser.inbox)])
         ELSE /\ treq' = [treq EXCEPT ![c].at = "after", ![c].resp = "none"]
              /\ Numbered([tser EXCEPT !.got[c] = 0])
              /\ UNCHANGED tinbox
    /\ TelloQuiet
    /\ UNCHANGED <<tstate, tsock, trunning, twire>>

\* What follows _send_command in takeoff (64-68), land (72-76),
\* emergency_stop (80-81), send_rc and connect (38-49).
TelloAfter(c) ==
    /\ treq[c].at = "after"
    /\ treq' = [treq EXCEPT ![c] = Idle]
    /\ LET op == treq[c].op
           ok == Acked(treq[c].resp)
       IN  CASE op = "takeoff" ->
                  /\ tstate' = IF ok THEN [tstate EXCEPT !.is_flying = TRUE] ELSE tstate
                  /\ TelloReturn(IF ok THEN "takeoff_true" ELSE "takeoff_false")
                  /\ UNCHANGED trunning
             [] op = "land" ->
                  /\ tstate' = IF ok THEN [tstate EXCEPT !.is_flying = FALSE] ELSE tstate
                  /\ TelloReturn(IF ok THEN "land_true" ELSE "land_false")
                  /\ UNCHANGED trunning
             [] op = "emergency" ->
                  /\ tstate' = [tstate EXCEPT !.is_flying = FALSE]
                  /\ TelloReturn("emergency_done")
                  /\ UNCHANGED trunning
             [] op = "rc" ->
                  /\ TelloReturn("rc_done")
                  /\ UNCHANGED <<tstate, trunning>>
             [] op = "command" ->
                  IF treq[c].resp = "none"
                    THEN /\ TelloReturn("connect_false")
                         /\ UNCHANGED <<tstate, trunning>>
                    ELSE /\ trunning' = TRUE
                         /\ tstate' = [tstate EXCEPT !.is_connected = TRUE]
                         /\ TelloReturn("connect_true")
    /\ Numbered([tser EXCEPT !.mine[c] = 0, !.got[c] = 0])
    /\ UNCHANGED <<tsock, twire, tinbox>>

\* disconnect(): line 54, lines 55-56, lines 57-60
TelloDisconnect54(c) ==
    /\ treq[c] = Idle
    /\ trunning' = FALSE
    /\ treq' = [treq EXCEPT ![c] = [Idle EXCEPT !.op = "disconnect", !.at = "L55"]]
    /\ TelloQuiet
    /\ UNCHANGED <<tstate, tsock, twire, tinbox, tser>>

TelloDisconnect55(c) ==
    /\ treq[c].at = "L55"
    /\ tstate' = [tstate EXCEPT !.is_connected = FALSE]
    /\ treq' = [treq EXCEPT ![c].at = "L57"]
    /\ TelloQuiet
    /\ UNCHANGED <<tsock, trunning, twire, tinbox, tser>>

TelloDisconnect57(c) ==
    /\ treq[c].at = "L57"
    /\ tsock' = IF tsock = "none" THEN "none" ELSE "closed"
    /\ tinbox' = <<>>
    /\ Numbered([tser EXCEPT !.inbox = <<>>])
    /\ treq' = [treq EXCEPT ![c] = Idle]
    /\ TelloReturn("disconnect_done")
    /\ UNCHANGED <<tstate, trunning, twire>>

\* The device answers the oldest command it has received, or loses it.  It
\* sends no reply to an rc command.
DeviceReply ==
    /\ twire # <<>>
    /\ twire' = Tail(twire)
    /\ \/ /\ Head(twire)[1] # "rc"
          /\ tsock = "open"
          /\ Len(tinbox) < MaxWire
          /\ \E r \in Replies : tinbox' = Append(tinbox, r)
          /\ Numbered([tser EXCEPT !.wire = Tail(@),
                                   !.inbox = Append(@, Head(tser.wire))])
       \/ /\ UNCHANGED tinbox
          /\ Numbered([tser EXCEPT !.wire = Tail(@)])
    /\ TelloQuiet
    /\ UNCHANGED <<tstate, tsock, trunning, treq>>

TelloRun(c) ==
    \/ TelloSend(c) \/ TelloRecv(c) \/ TelloAfter(c)
    \/ TelloDisconnect55(c) \/ TelloDisconnect57(c)

\* ================================================== AutonomousNavigator
ARRIVAL_RADIUS == 35
NavThreads == 1 .. MaxNav
NoDest == <<>>
NoSnap == [pos |-> NoDest, dest |-> NoDest]
NavInit ==
    /\ nav = [destination |-> NoDest, active |-> FALSE, status |-> "idle",
              reached |-> FALSE, avoidance_action |-> "none"]
    /\ npc = [w \in NavThreads |-> "dead"]
    /\ nloc = [w \in NavThreads |-> NoSnap]
    /\ ncall = "idle"

\* A step of the navigator that leaves the drone alone and returns nothing,
\* one that returns `what`, and one that calls the drone's send_rc.
NavFrame == UNCHANGED <<apVars, telloVars, envVars>>
NavQuiet == NavFrame /\ UNCHANGED <<histVars, simVars>>
NavReturn(what) ==
    /\ Returned(what)
    /\ NavFrame
    /\ UNCHANGED <<obs, abortMark, gotoCount, simVars>>
NavSendRc(t) ==
    /\ rc_values' = [k \in 1 .. 4 |-> Clamp(t[k])]
    /\ UNCHANGED <<state, speed_setting, rc_active, rcThreadVars, spc, motionVars,
                   grounded>>

\* A guard of start() that never finds the destination missing.
NeverUnset(d) == FALSE

\* not self._destination
Unset(d) == d = NoDest

\* set_destination(x, y, z): lines 47-50, under the lock
SetDestination(d) ==
    /\ ncall = "idle"
    /\ nav' = [nav EXCEPT !.destination = d, !.reached = FALSE,
                          !.status = "destination_set"]
    /\ NavReturn("set_destination_done")
    /\ UNCHANGED <<npc, nloc, ncall>>

\* start(): the call, then line 53: if self._active: return
CallNavStart ==
    /\ ncall = "idle"
    /\ ncall' = "start_53"
    /\ NavQuiet
    /\ UNCHANGED <<nav, npc, nloc>>

NavStart53 ==
    /\ ncall = "start_53"
    /\ IF nav.active
         THEN ncall' = "idle" /\ NavReturn("start_noop")
         ELSE ncall' = "start_55" /\ NavQuiet
    /\ UNCHANGED <<nav, npc, nloc>>

\* lines 55-56: if not self._destination: raise RuntimeError
NavStart55 ==
    /\ ncall = "start_55"
    /\ IF Unset(nav.destination)
         THEN ncall' = "idle" /\ NavReturn("start_raised")
         ELSE ncall' = "start_57" /\ NavQuiet
    /\ UNCHANGED <<nav, npc, nloc>>

\* line 57: self._active = True
NavStart57 ==
    /\ ncall = "start_57"
    /\ nav' = [nav EXCEPT !.active = TRUE]
    /\ ncall' = "start_58"
    /\ NavQuiet
    /\ UNCHANGED <<npc, nloc>>

\* line 58: self._reached = False
NavStart58 ==
    /\ ncall = "start_58"
    /\ nav' = [nav EXCEPT !.reached = FALSE]
    /\ ncall' = "start_59"
    /\ NavQuiet
    /\ UNCHANGED <<npc, nloc>>

\* line 59: self._status = "navigating"
NavStart59 ==
    /\ ncall = "start_59"
    /\ nav' = [nav EXCEPT !.status = "navigating"]
    /\ ncall' = "start_60"
    /\ NavQuiet
    /\ UNCHANGED <<npc, nloc>>

\* lines 60-61: the worker thread is created and started.  (With every
\* modelled thread alive the call waits.)
NavStart60 ==
    /\ ncall = "start_60"
    /\ \E w \in NavThreads :
         /\ npc[w] = "dead"
         /\ \A v \in NavThreads : npc[v] = "dead" => w <= v
         /\ npc' = [npc EXCEPT ![w] = "L94"]
    /\ ncall' = "idle"
    /\ NavReturn("start_done")
    /\ UNCHANGED <<nav, nloc>>

\* stop(): lines 64, 65 and 66
NavStop64 ==
    /\ ncall = "idle"
    /\ nav' = [nav EXCEPT !.active = FALSE]
    /\ ncall' = "stop_65"
    /\ NavQuiet
    /\ UNCHANGED <<npc, nloc>>

NavStop65 ==
    /\ ncall = "stop_65"
    /\ nav' = [nav EXCEPT !.status = "stopped"]
    /\ ncall' = "stop_66"
    /\ NavQuiet
    /\ UNCHANGED <<npc, nloc>>

NavStop66 ==
    /\ ncall = "stop_66"
    /\ NavSendRc(ZeroRc)
    /\ ncall' = "idle"
    /\ Returned("stop_done")
    /\ NavFrame
    /\ UNCHANGED <<obs, abortMark, gotoCount, nav, npc, nloc>>

\* _nav_loop, line 94: while self._active
NavLoop94(w) ==
    /\ npc[w] = "L94"
    /\ npc' = [npc EXCEPT ![w] = IF nav.active THEN "L95" ELSE "L137"]
    /\ NavQuiet
    /\ UNCHANGED <<nav, nloc, ncall>>

\* lines 95-99: get_state() under the drone's lock; on the ground the tick
\* sleeps and starts over
NavLoop95(w) ==
    /\ npc[w] = "L95"
    /\ IF is_flying
         THEN /\ npc' = [npc EXCEPT ![w] = "L105"]
              /\ nloc' = [nloc EXCEPT ![w] = [pos |-> Pos(state), dest |-> NoDest]]
         ELSE /\ npc' = [npc EXCEPT ![w] = "L94"]
              /\ UNCHANGED nloc
    /\ NavQuiet
    /\ UNCHANGED <<nav, ncall>>

\* dist_to_goal < self.ARRIVAL_RADIUS
Arrived(p, d) == Dist2(p, d) < ARRIVAL_RADIUS * ARRIVAL_RADIUS

\* lines 105-116: the destination is read and the arrival is checked; the
\* locals are kept for the rest of an arriving tick
NavLoop105(w) ==
    /\ npc[w] = "L105"
    /\ npc' = [npc EXCEPT ![w] =
                 IF Unset(nav.destination) THEN "L94"
                 ELSE IF Arrived(nloc[w].pos, nav.destination) THEN "L117"
                 ELSE "L133"]
    /\ nloc' = [nloc EXCEPT ![w] =
                   IF ~Unset(nav.destination) /\ Arrived(nloc[w].pos, nav.destination)
                     THEN [nloc[w] EXCEPT !.dest = nav.destination]
                     ELSE NoSnap]
    /\ NavQuiet
    /\ UNCHANGED <<nav, ncall>>

\* line 117: self._drone.send_rc(0, 0, 0, 0)
NavLoop117(w) ==
    /\ npc[w] = "L117"
    /\ NavSendRc(ZeroRc)
    /\ npc' = [npc EXCEPT ![w] = "L118"]
    /\ NavFrame
    /\ UNCHANGED <<histVars, nav, nloc, ncall>>

\* lines 118-122: status, reached, avoidance action and active, then break
NavLoop118(w) ==
    /\ npc[w] = "L118"
    /\ nav' = [nav EXCEPT !.status = "reached"]
    /\ npc' = [npc EXCEPT ![w] = "L119"]
    /\ NavQuiet
    /\ UNCHANGED <<nloc, ncall>>

NavLoop119(w) ==
    /\ npc[w] = "L119"
    /\ nav' = [nav EXCEPT !.reached = TRUE, !.avoidance_action = "none"]
    /\ npc' = [npc EXCEPT ![w] = "L121"]
    /\ NavQuiet
    /\ UNCHANGED <<nloc, ncall>>

NavLoop121(w) ==
    /\ npc[w] = "L121"
    /\ nav' = [nav EXCEPT !.active = FALSE]
    /\ npc' = [npc EXCEPT ![w] = "L137"]
    /\ NavQuiet
    /\ UNCHANGED <<nloc, ncall>>

\* The results of _compute_commands (lines 141-215) as (lr, fb, ud, yaw) with
\* the avoidance action they come with: what the camera frame makes of them
\* is left open.
NavCommands == {<<<<0, 45, 0, 0>>, "clear">>, <<<<0, -20, 0, 70>>, "critical">>}

\* lines 125-134: the commands are computed and sent, then the tick sleeps
NavLoop133(w) ==
    /\ npc[w] = "L133"
    /\ \E cmd \in NavCommands :
         /\ nav' = [nav EXCEPT !.avoidance_action = cmd[2]]
         /\ NavSendRc(cmd[1])
    /\ npc' = [npc EXCEPT ![w] = "L94"]
    /\ NavFrame
    /\ UNCHANGED <<histVars, nloc, ncall>>

\* A worker that ends without its last send_rc.
NavLoop137Silent(w) ==
    /\ npc[w] = "L137"
    /\ npc' = [npc EXCEPT ![w] = "dead"]
    /\ nloc' = [nloc EXCEPT ![w] = NoSnap]
    /\ NavQuiet
    /\ UNCHANGED <<nav, ncall>>

\* line 137: self._drone.send_rc(0, 0, 0, 0), and the thread ends
NavLoop137(w) ==
    /\ npc[w] = "L137"
    /\ NavSendRc(ZeroRc)
    /\ npc' = [npc EXCEPT ![w] = "dead"]
    /\ nloc' = [nloc EXCEPT ![w] = NoSnap]
    /\ NavFrame
    /\ UNCHANGED <<histVars, nav, ncall>>

NavCallStep ==
    \/ CallNavStart \/ NavStart53 \/ NavStart55 \/ NavStart57 \/ NavStart58
    \/ NavStart59 \/ NavStart60
    \/ NavStop64 \/ NavStop65 \/ NavStop66

NavThreadStep(w) ==
    \/ NavLoop94(w) \/ NavLoop95(w) \/ NavLoop105(w) \/ NavLoop117(w)
    \/ NavLoop118(w) \/ NavLoop119(w) \/ NavLoop121(w) \/ NavLoop133(w)
    \/ NavLoop137(w)

\* _compute_commands, lines 141-215.  The depths, angles and altitudes are
\* whole; a frame has at least five rays (the camera's default is 48).
SAFETY_DISTANCE == 100
CRITICAL_DISTANCE == 50
CRUISE_SPEED == 45

\* No _compute_commands call is under way.
NoAvoid == [pc |-> "none"]

\* The quotient, rounded down
Floor(num, den) == num \div den

\* int(num / den): the quotient, cut towards zero
Trunc(num, den) == IF num >= 0 THEN num \div den ELSE -((-num) \div den)

\* min(depths[start:end]), with the slice's bounds
SliceMin(depths, start, end) ==
    CHOOSE m \in {depths[i] : i \in start + 1 .. end} :
      \A i \in start + 1 .. end : m <= depths[i]

\* lines 149-156: the least depth of each of the five zones, the last zone
\* taking the rays left over
Zones(depths) ==
    LET n == Len(depths)
        zone_size == n \div 5
    IN  [z \in 0 .. 4 |->
           SliceMin(depths, z * zone_size,
                    IF z < 4 THEN z * zone_size + zone_size ELSE n)]

\* lines 178-181, with the tie turning left
CriticalTurnTieLeft(best_left, best_right) ==
    IF best_left >= best_right THEN -70 ELSE 70

\* lines 178-181
CriticalTurn(best_left, best_right) ==
    IF best_left > best_right THEN -70 ELSE 70

\* lines 189-203, the turn always towards the goal
CautionTurnGoalSide(heading_error, best_left, best_right) ==
    IF heading_error < 0 THEN -50 ELSE 50

\* lines 189-203
CautionTurn(heading_error, best_left, best_right) ==
    IF heading_error < 0
      THEN IF best_left > CRITICAL_DISTANCE THEN -50
           ELSE IF best_right > CRITICAL_DISTANCE THEN 50
           ELSE IF best_left >= best_right THEN -50 ELSE 50
      ELSE IF best_right > CRITICAL_DISTANCE THEN 50
           ELSE IF best_left > CRITICAL_DISTANCE THEN -50
           ELSE IF best_right >= best_left THEN 50 ELSE -50

\* lines 209-213 (0.6 * SAFETY_DISTANCE is 60)
Nudged(yaw_cmd, zones) ==
    LET y1 == IF 10 * zones[0] < 6 * SAFETY_DISTANCE THEN Max(yaw_cmd, 15)
                                                     ELSE yaw_cmd
    IN  IF 10 * zones[4] < 6 * SAFETY_DISTANCE THEN Min(y1, -15) ELSE y1

\* _compute_commands: the result (yaw_cmd, fwd_cmd, alt_cmd) and the label
\* written to self._avoidance_action
ComputeCommands(depths, yaw, z, goal_bearing, goal_alt) ==
    LET zones == Zones(depths)
        center_clear == zones[2]
        best_left == Max(zones[0], zones[1])
        best_right == Max(zones[3], zones[4])
        heading_error == ((goal_bearing - yaw + 180) % 360) - 180
        alt_error == goal_alt - z
        alt_cmd == Trunc(Max(-300, Min(300, alt_error * 5)), 10)
        yaw_cmd == Trunc(Max(-600, Min(600, heading_error * 8)), 10)
    IN  IF center_clear < CRITICAL_DISTANCE
          THEN [result |-> <<CriticalTurn(best_left, best_right), -20, alt_cmd>>,
                action |-> "critical"]
        ELSE IF center_clear < SAFETY_DISTANCE
          THEN [result |-> <<CautionTurn(heading_error, best_left, best_right),
                             Max(10, Trunc(CRUISE_SPEED * center_clear,
                                           SAFETY_DISTANCE)),
                             alt_cmd>>,
                action |-> "avoiding"]
        ELSE [result |-> <<Nudged(yaw_cmd, zones), CRUISE_SPEED, alt_cmd>>,
              action |-> "clear"]

\* One call of _compute_commands, from its first line to its return.
Compute141 ==
    /\ avoid.pc = "L141"
    /\ LET out == ComputeCommands(avoid.depths, avoid.yaw, avoid.z,
                                  avoid.goal_bearing, avoid.goal_alt)
       IN  /\ avoid' = [avoid EXCEPT !.pc = "returned", !.result = out.result]
           /\ nav' = [nav EXCEPT !.avoidance_action = out.action]
    /\ UNCHANGED <<apVars, histVars, simVars, telloVars, rc_input, ticks, cast,
                   npc, nloc, ncall>>

\* _nav_loop, lines 129-132: the result is sent as
\* send_rc(0, fwd_cmd, alt_cmd, yaw_cmd)
Send132 ==
    /\ avoid.pc = "returned"
    /\ avoid' = [avoid EXCEPT !.pc = "sent"]
    /\ NavSendRc(<<0, avoid.result[2], avoid.result[3], avoid.result[1]>>)
    /\ UNCHANGED <<apVars, histVars, telloVars, rc_input, ticks, cast, navVars>>

\* ========================================================== Environment
\* Obstacle: x, y, z_base, width, depth, height, is_cylindrical.  Lengths are
\* whole centimetres and the widths even, so that every distance on an
\* axis-aligned ray is whole.
Box(x, y, zb, w, d, h) ==
    [x |-> x, y |-> y, z_base |-> zb, width |-> w, depth |-> d, height |-> h,
     is_cylindrical |-> FALSE]
Pillar(x, y, zb, w, h) ==
    [x |-> x, y |-> y, z_base |-> zb, width |-> w, depth |-> w, height |-> h,
     is_cylindrical |-> TRUE]

\* None, as a distance
NoHit == -1
\* 1e18
Huge == 1000000
\* margin: float = 30.0
AltitudeMargin == 30

\* overlaps_altitude(z), lines 35-37
OverlapsAltitude(o, z) ==
    /\ z + AltitudeMargin >= o.z_base
    /\ z - AltitudeMargin <= o.z_base + o.height

\* One slab of _ray_aabb_intersect (lines 54-61 and 63-70): <<hit?, t_min,
\* t_max>> for the origin coordinate p, the direction component d (0 stands
\* for |d| < EPS) and the slab lo .. hi.
Slab(p, d, lo, hi) ==
    IF d = 0
      THEN <<~(p < lo \/ p > hi), -Huge, Huge>>
      ELSE LET t1 == (lo - p) * d
               t2 == (hi - p) * d
           IN  <<TRUE, Min(t1, t2), Max(t1, t2)>>

\* _ray_aabb_intersect, lines 47-81 (d is 1, 0 or -1, so a division by d is
\* a multiplication by it)
RayAabb(o, ox, oy, dx, dy, max_range) ==
    LET sx == Slab(ox, dx, o.x - o.width \div 2, o.x + o.width \div 2)
        sy == Slab(oy, dy, o.y - o.depth \div 2, o.y + o.depth \div 2)
        t_enter == Max(sx[2], sy[2])
        t_exit == Min(sx[3], sy[3])
        t == IF t_enter >= 0 THEN t_enter ELSE t_exit
    IN  IF ~sx[1] \/ ~sy[1] THEN NoHit
        ELSE IF t_enter > t_exit \/ t_exit < 0 THEN NoHit
        ELSE IF t > max_range \/ t < 0 THEN NoHit
        ELSE t

\* _ray_circle_intersect, lines 84-103, on a ray of unit direction (a = 1)
RayCircle(o, ox, oy, dx, dy, max_range) ==
    LET radius == o.width \div 2
        fx == ox - o.x
        fy == oy - o.y
        b == 2 * (fx * dx + fy * dy)
        c == fx * fx + fy * fy - radius * radius
        discriminant == b * b - 4 * c
        sqrt_disc == ISqrt(discriminant)
        t1 == (-b - sqrt_disc) \div 2
        t2 == (-b + sqrt_disc) \div 2
        t == IF t1 >= 0 THEN t1 ELSE t2
    IN  IF discriminant < 0 THEN NoHit
        ELSE IF t < 0 \/ t > max_range THEN NoHit
        ELSE t

\* ray_intersect_2d, lines 39-45
RayIntersect2d(o, ox, oy, dx, dy, max_range) ==
    IF o.is_cylindrical THEN RayCircle(o, ox, oy, dx, dy, max_range)
                        ELSE RayAabb(o, ox, oy, dx, dy, max_range)

\* No ray cast is under way.
NoCast == [pc |-> "none"]

\* ray_cast, lines 126-132: one pass of the loop over self.obstacles
RayCast126 ==
    /\ cast.pc = "L126"
    /\ cast.i <= Len(cast.obstacles)
    /\ LET o == cast.obstacles[cast.i]
           dist == RayIntersect2d(o, cast.ox, cast.oy, cast.dir[1], cast.dir[2],
                                  cast.max_range)
       IN  cast' = IF OverlapsAltitude(o, cast.oz) /\ dist # NoHit
                        /\ dist < cast.nearest_dist
                     THEN [cast EXCEPT !.i = @ + 1, !.nearest_dist = dist,
                                       !.nearest_obs = cast.i]
                     ELSE [cast EXCEPT !.i = @ + 1]
    /\ UNCHANGED <<apVars, histVars, simVars, telloVars, navVars, rc_input, ticks, avoid>>

\* ray_cast, line 134: return nearest_dist, nearest_obs
RayCast134 ==
    /\ cast.pc = "L126"
    /\ cast.i > Len(cast.obstacles)
    /\ cast' = [cast EXCEPT !.pc = "returned"]
    /\ UNCHANGED <<apVars, histVars, simVars, telloVars, navVars, rc_input, ticks, avoid>>

\* ================================================================ specs
Init ==
    /\ APInit
    /\ is_flying \in BOOLEAN
    /\ obs = "none"
    /\ SimInit
    /\ TelloInit
    /\ NavInit
    /\ rc_input = ZeroRc
    /\ ticks = 0
    /\ cast = NoCast
    /\ avoid = NoAvoid

Next ==
    \/ ApiStep
    \/ \E w \in Workers : WorkerStep(w)
    \/ DroneFlightChange

Spec == Init /\ [][Next]_vars

\* The same program with the observer of returned requests switched on.
InitCalls ==
    /\ APInit
    /\ is_flying \in BOOLEAN
    /\ obs = "calls"
    /\ SimInit
    /\ TelloInit
    /\ NavInit
    /\ rc_input = ZeroRc
    /\ ticks = 0
    /\ cast = NoCast
    /\ avoid = NoAvoid

SpecCalls == InitCalls /\ [][Next]_vars

\* The same program with the observer of abort() switched on, under fair
\* scheduling.
InitAbort ==
    /\ APInit
    /\ is_flying \in BOOLEAN
    /\ obs = "abort"
    /\ SimInit
    /\ TelloInit
    /\ NavInit
    /\ rc_input = ZeroRc
    /\ ticks = 0
    /\ cast = NoCast
    /\ avoid = NoAvoid

SpecAbort == InitAbort /\ [][Next]_vars /\ Fair

\* A plan is loaded once, into an autopilot that has none.
FirstLoad(p) == cur = NoPlan /\ CallLoad(p)
\* start() on a plan that was never started.
StartOnce == cur # NoPlan /\ pstatus[cur] = "IDLE" /\ CallStart

InitGoto ==
    /\ APInit
    /\ is_flying \in BOOLEAN
    /\ obs = "goto"
    /\ SimInit
    /\ TelloInit
    /\ NavInit
    /\ rc_input = ZeroRc
    /\ ticks = 0
    /\ cast = NoCast
    /\ avoid = NoAvoid

\* A mission that is only started: one load_plan, then start() at any time,
\* no pause, abort or reload, the drone flying throughout or not at all;
\* fair scheduling.
NextRun ==
    \/ \E p \in Plans : FirstLoad(p)
    \/ Load159 \/ Load160 \/ Load161 \/ Load162
    \/ CallStart \/ Start171 \/ Start172 \/ Start173
    \/ \E w \in Workers : WorkerStep(w)

SpecRun == InitGoto /\ [][NextRun]_vars /\ Fair

\* A mission that is started once and then only paused and resumed.
NextPause ==
    \/ \E p \in Plans : FirstLoad(p)
    \/ Load159 \/ Load160 \/ Load161 \/ Load162
    \/ StartOnce \/ Start171 \/ Start172 \/ Start173
    \/ CallPause \/ Pause178
    \/ CallResume \/ Resume182
    \/ \E w \in Workers : WorkerStep(w)

SpecPause == InitGoto /\ [][NextPause]_vars

\* The simulated backend alone: the autopilot is idle.
InitSim ==
    /\ APInit
    /\ ploop = [p \in Plans |-> FALSE]
    /\ is_flying = FALSE
    /\ obs = "none"
    /\ SimInit
    /\ TelloInit
    /\ NavInit
    /\ rc_input = ZeroRc
    /\ ticks = 0
    /\ cast = NoCast
    /\ avoid = NoAvoid

\* Inputs of the requests.
RcInputs == {ZeroRc, <<0, 80, 0, 0>>}
MoveInputs == {<<"forward", 4>>, <<"up", 20>>, <<"sideways", 20>>}
GoToInputs == {<<<<0, 0, 130>>, 200>>, <<<<0, 0, 80>>, 200>>}

ControlStep(c) ==
    \/ Connect(c)
    \/ CallTakeoff(c) \/ StartRc195(c) \/ StartRc197(c) \/ StartRc198(c)
    \/ CallLand(c) \/ Land202(c) \/ Land203(c) \/ Land63(c)
    \/ CallEmergencyStop(c) \/ Emergency202(c) \/ Emergency203(c) \/ Emergency77(c)
    \/ CallDisconnect(c) \/ Disconnect202(c) \/ Disconnect203(c) \/ Disconnect77(c)
    \/ Disconnect46(c)

MotionRun == Move91 \/ Move116 \/ GoTo177 \/ GoTo184

\* The caller thread of the specifications with one control request at a time.
OneCaller == {c \in Callers : \A d \in Callers : c <= d}

NextSim ==
    \/ \E c \in OneCaller : ControlStep(c)
    \/ \E c \in OneCaller, t \in RcInputs : SendRc(c, t)
    \/ \E m \in MoveInputs : CallMove(m[1], m[2])
    \/ \E g \in GoToInputs : CallGoTo(g[1], g[2])
    \/ MotionRun
    \/ \E r \in RcThreads : RcThreadStep(r)

SpecSim == InitSim /\ [][NextSim]_vars

\* Both backends, driven by one caller thread (one request at a time, to
\* either backend) with the requests that connect, fly, stop and
\* disconnect; returned requests are observed.
InitBackends ==
    /\ APInit
    /\ ploop = [p \in Plans |-> FALSE]
    /\ is_flying = FALSE
    /\ obs = "calls"
    /\ SimInit
    /\ TelloInit
    /\ NavInit
    /\ rc_input = ZeroRc
    /\ ticks = 0
    /\ cast = NoCast
    /\ avoid = NoAvoid

TelloOps == {"takeoff", "land", "emergency"}

NextBackends ==
    \/ \E c \in OneCaller : treq[c] = Idle /\ ControlStep(c)
    \/ \E r \in RcThreads : RcThreadStep(r)
    \/ \E c \in OneCaller : spc[c] = "idle" /\ TelloConnect29(c)
    \/ \E c \in OneCaller, op \in TelloOps :
            spc[c] = "idle" /\ TelloCall(c, op, NoCmd)
    \/ \E c \in OneCaller : spc[c] = "idle" /\ TelloDisconnect54(c)
    \/ \E c \in OneCaller : TelloRun(c)
    \/ DeviceReply

SpecBackends == InitBackends /\ [][NextBackends]_vars

\* The simulator with the battery meter on, up to and in flight: one caller
\* thread that connects, takes off, moves the yaw stick, rotates, sets the
\* speed and makes long descents.
InitPower ==
    /\ APInit
    /\ ploop = [p \in Plans |-> FALSE]
    /\ is_flying = FALSE
    /\ obs = "power"
    /\ SimInit
    /\ TelloInit
    /\ NavInit
    /\ rc_input = ZeroRc
    /\ ticks = 0
    /\ cast = NoCast
    /\ avoid = NoAvoid

YawInputs == {<<0, 0, 0, 7>>, <<0, 0, 0, -21>>}
TurnInputs == {90}
SpeedInputs == {100}
DescentInputs == {<<"down", 5000>>}

NextPower ==
    \/ \E c \in OneCaller : Connect(c)
    \/ \E c \in OneCaller : CallTakeoff(c) \/ StartRc195(c) \/ StartRc197(c)
                               \/ StartRc198(c)
    \/ \E c \in OneCaller, t \in YawInputs : SendRc(c, t)
    \/ \E c \in OneCaller, v \in SpeedInputs : SetSpeed(c, v)
    \/ \E d \in TurnInputs : CallRotate(d)
    \/ \E m \in DescentInputs : CallMove(m[1], m[2])
    \/ Move91 \/ Move116
    \/ \E r \in RcThreads : RcThreadStep(r)

SpecPower == InitPower /\ [][NextPower]_vars

\* The simulator with every request that has a precondition, and the
\* observer of returned requests on.  (The rotations are full turns, which
\* keep the yaw at 0, where cos and sin are exact.)
FullTurnInputs == {360}

NextRefuse ==
    \/ NextSim
    \/ \E d \in FullTurnInputs : CallRotate(d)

SpecRefuse == InitBackends /\ [][NextRefuse]_vars

\* The simulator with send_rc called on the ground only: no RC tuple is
\* sent while the drone is flying, and no other motion request is made.
NextGroundRc ==
    \/ \E c \in OneCaller : ControlStep(c)
    \/ \E c \in OneCaller, t \in RcInputs : ~is_flying /\ SendRc(c, t)
    \/ \E r \in RcThreads : RcThreadStep(r)

SpecGroundRc == InitSim /\ [][NextGroundRc]_vars

\* send_rc of both backends, for every argument tuple over values at, inside
\* and outside the range of a stick.
StickValues == {-101, -100, 0, 100, 101}

InitRc ==
    /\ APInit
    /\ ploop = [p \in Plans |-> FALSE]
    /\ is_flying = FALSE
    /\ obs = "none"
    /\ SimInit
    /\ TelloInit
    /\ NavInit
    /\ rc_input \in StickValues \X StickValues \X StickValues \X StickValues
    /\ ticks = 0
    /\ cast = NoCast
    /\ avoid = NoAvoid

NextRc ==
    \/ \E c \in OneCaller : SendRc(c, rc_input)
    \/ \E c \in OneCaller : TelloConnect29(c)
    \/ \E c \in OneCaller : TelloCall(c, "rc", rc_input)
    \/ \E c \in OneCaller : TelloSend(c) \/ TelloRecv(c) \/ TelloAfter(c)
    \/ DeviceReply

SpecRc == InitRc /\ [][NextRc]_vars

\* go_to on its own: the drone is connected and takes off, the integrator
\* runs with the zero tuple, and go_to is the only request made in flight.
\* The targets lie above, at and below the hover altitude, one of them
\* under the ground.
TargetInputs == {<<<<0, 0, 120>>, 400>>, <<<<0, 0, 80>>, 400>>,
                 <<<<0, 0, -40>>, 400>>}

NextGoTo ==
    \/ \E c \in OneCaller : Connect(c)
    \/ \E c \in OneCaller : CallTakeoff(c) \/ StartRc195(c) \/ StartRc197(c)
                               \/ StartRc198(c)
    \/ \E g \in TargetInputs : CallGoTo(g[1], g[2])
    \/ GoTo177 \/ GoTo184
    \/ \E r \in RcThreads : RcThreadStep(r)

SpecGoTo == InitBackends /\ [][NextGoTo]_vars

\* The navigator over the simulated drone: destinations at the hover point
\* and far from it, start() and stop() from one caller thread, the worker
\* threads, and a drone that connects and takes off.  The drone hovers where
\* takeoff left it: the integrator is not run here.
DestInputs == {<<0, 0, 80>>, <<300, 0, 80>>}

NextNav ==
    \/ \E d \in DestInputs : SetDestination(d)
    \/ NavCallStep
    \/ \E w \in NavThreads : NavThreadStep(w)
    \/ \E c \in OneCaller : Connect(c)
    \/ \E c \in OneCaller : CallTakeoff(c) \/ StartRc195(c) \/ StartRc197(c)
                               \/ StartRc198(c)

SpecNav == InitBackends /\ [][NextNav]_vars

\* The navigator up to and after one stop(): one caller thread makes the
\* requests, to the navigator and to the drone, one at a time; once stop()
\* has returned it makes no further request, and the threads run on under
\* fair scheduling.
BeforeStop == last # "stop_done"
CallerFree == ncall = "idle" /\ \A c \in Callers : spc[c] = "idle"

NextStop ==
    \/ \E d \in DestInputs : BeforeStop /\ CallerFree /\ SetDestination(d)
    \/ BeforeStop /\ CallerFree /\ CallNavStart
    \/ NavStart53 \/ NavStart55 \/ NavStart57 \/ NavStart58 \/ NavStart59
    \/ NavStart60
    \/ BeforeStop /\ CallerFree /\ NavStop64
    \/ NavStop65 \/ NavStop66
    \/ \E w \in NavThreads : NavThreadStep(w)
    \/ \E c \in OneCaller : BeforeStop /\ CallerFree /\ Connect(c)
    \/ \E c \in OneCaller : BeforeStop /\ CallerFree /\ CallTakeoff(c)
    \/ \E c \in OneCaller : StartRc195(c) \/ StartRc197(c) \/ StartRc198(c)

NavFair ==
    /\ \A w \in NavThreads : WF_vars(NavThreadStep(w))
    /\ WF_vars(NavStop65 \/ NavStop66)

SpecStop == InitBackends /\ [][NextStop]_vars /\ NavFair

\* The hardware adapter alone, its requests called from two threads, the
\* datagrams numbered.
InitAcks ==
    /\ APInit
    /\ ploop = [p \in Plans |-> FALSE]
    /\ is_flying = FALSE
    /\ obs = "acks"
    /\ SimInit
    /\ TelloInit
    /\ NavInit
    /\ rc_input = ZeroRc
    /\ ticks = 0
    /\ cast = NoCast
    /\ avoid = NoAvoid

FlightOps == {"takeoff", "land"}

NextAcks ==
    \/ \E c \in Callers : TelloConnect29(c)
    \/ \E c \in Callers, op \in FlightOps : TelloCall(c, op, NoCmd)
    \/ \E c \in Callers : TelloSend(c) \/ TelloRecv(c) \/ TelloAfter(c)
    \/ DeviceReply

SpecAcks == InitAcks /\ [][NextAcks]_vars

\* The simulator with its control requests called from two threads, a tuple
\* latched at any time, and the integrator threads.
NextIntegrate ==
    \/ \E c \in Callers : ControlStep(c)
    \/ \E c \in Callers, t \in RcInputs : SendRc(c, t)
    \/ \E r \in RcThreads : RcThreadStep(r)

SpecIntegrate == InitSim /\ [][NextIntegrate]_vars

\* _compute_commands over frames of five and six rays with depths below, at
\* and above CRITICAL_DISTANCE, between it and SAFETY_DISTANCE and beyond, the goal ahead, to
\* the right and to the left, at, above and below the drone's altitude.
DepthValues == {40, 50, 77, 120}
Frames == UNION {[1 .. n -> DepthValues] : n \in 5 .. MaxRays}
Bearings == {0, 45, 270}
GoalAlts == {45, 80, 115}

InitCommands ==
    /\ APInit
    /\ ploop = [p \in Plans |-> FALSE]
    /\ is_flying = FALSE
    /\ obs = "none"
    /\ SimInit
    /\ TelloInit
    /\ NavInit
    /\ rc_input = ZeroRc
    /\ ticks = 0
    /\ cast = NoCast
    /\ \E f \in Frames, b \in Bearings, a \in GoalAlts :
         avoid = [pc |-> "L141", depths |-> f, yaw |-> 0, z |-> HoverZ,
                  goal_bearing |-> b, goal_alt |-> a, result |-> <<0, 0, 0>>]

NextCommands == Compute141 \/ Send132

SpecCommands == InitCommands /\ [][NextCommands]_vars

\* ray_cast over small scenes of whole-centimetre obstacles: boxes and a
\* pillar on the x axis, a box around the origin, a box high up; rays along
\* the four axes (angle_rad a multiple of pi / 2; dir is the pair of its
\* cosine and sine of lines 120-121, a cosine or sine of magnitude below EPS
\* being 0) from two altitudes, with a short and the default range.
Catalogue == {Box(4, 0, 0, 2, 2, 100), Box(6, 0, 0, 2, 4, 100),
              Pillar(4, 0, 0, 2, 100), Box(0, 0, 0, 2, 2, 100),
              Box(0, 4, 200, 2, 2, 50)}
Scenes == UNION {[1 .. n -> Catalogue] : n \in 0 .. MaxObstacles}
RayDirs == {<<1, 0>>, <<0, 1>>, <<-1, 0>>, <<0, -1>>}
RayAltitudes == {80, 170}
RayRanges == {3, 500}

InitCast ==
    /\ APInit
    /\ ploop = [p \in Plans |-> FALSE]
    /\ is_flying = FALSE
    /\ obs = "none"
    /\ SimInit
    /\ TelloInit
    /\ NavInit
    /\ rc_input = ZeroRc
    /\ ticks = 0
    /\ avoid = NoAvoid
    /\ \E sc \in Scenes, d \in RayDirs, z \in RayAltitudes, m \in RayRanges :
         cast = [pc |-> "L126", obstacles |-> sc, ox |-> 0, oy |-> 0, oz |-> z,
                 dir |-> d, max_range |-> m, i |-> 1, nearest_dist |-> m,
                 nearest_obs |-> 0]

NextCast == RayCast126 \/ RayCast134

SpecCast == InitCast /\ [][NextCast]_vars

\* The simulator with its connection and flight requests called from
\* different threads at once.
NextLink ==
    \/ \E c \in Callers : ControlStep(c)
    \/ \E r \in RcThreads : RcThreadStep(r)

SpecLink == InitSim /\ [][NextLink]_vars

\* ================================================================ claims
\* The plan objects referred to in the current state.
LiveNow == Live(cur, wplan, carg)
Terminal == {"COMPLETED", "ABORTED"}
StartLines == {"start_171", "start_172", "start_173"}
LoadLines == {"load_159", "load_160", "load_161", "load_162"}

\* C1: once a plan's status is COMPLETED or ABORTED, the only step that
\* changes it is load_plan's write of IDLE (line 160): no step of start(),
\* pause(), resume() and no worker step changes a terminal status.
C1_TerminalUntilLoad ==
    [][\A p \in Plans :
         (pstatus[p] \in Terminal /\ pstatus'[p] # pstatus[p] /\ p \in LiveNow')
           => (cpc = "load_160" /\ cpc' = "load_161")]_vars

\* C2: from abort()'s write of ABORTED on, the plan's status stays ABORTED
\* (in particular it is ABORTED when abort() returns and in every later state)
\* until start() or load_plan() is called: no step taken while neither of
\* them is in progress changes an ABORTED status.
C2_AbortedUntilStartOrLoad ==
    [][\A p \in Plans :
         (pstatus[p] = "ABORTED" /\ pstatus'[p] # "ABORTED" /\ p \in LiveNow')
           => cpc \in (StartLines \cup LoadLines)]_vars

\* C6: a step that changes a plan's current_index, other than load_plan's
\* reset (line 161), either increases it or resets it to 0 from the number
\* of waypoints on a plan with loop = true.
C6_IndexMonotone ==
    [][\A p \in Plans :
         (pindex'[p] # pindex[p] /\ p \in LiveNow')
           => \/ pindex'[p] > pindex[p]
              \/ (pindex'[p] = 0 /\ ploop[p] /\ pindex[p] = PlanLen(p))
              \/ (cpc = "load_161" /\ cpc' = "load_162")]_vars

\* A worker issues a go_to in this step.
Issues(w) == wpc[w] = "L216" /\ wpc'[w] \in {"InGoTo", "L218"}

\* C3: once abort() has written ABORTED while waypoint i was ACTIVE, and
\* until start() is called, no worker of that plan issues a go_to for
\* waypoint i+1 or a later one; and every worker of the plan exits.
C3_NoGoToAfterAbort ==
    /\ [][\A w \in Workers :
            (Issues(w) /\ abortMark[1] = wplan[w])
              => \A i \in abortMark[2] : widx[w] <= i]_vars
    /\ \A p \in Plans :
         (abortMark[1] = p /\ abortMark[2] # {})
           ~> (abortMark[1] # p \/ \A w \in Workers : wplan[w] # p)

\* C4: load_plan raises exactly when the loaded plan is RUNNING, and then
\* leaves the plan reference and every plan's status, current_index and
\* waypoint statuses as they were; in any other status it goes on to load.
C4_LoadGuard ==
    [][/\ (last' = "load_err" /\ last # "load_err")
            => /\ cur # NoPlan
               /\ pstatus[cur] = "RUNNING"
               /\ UNCHANGED <<cur, pstatus, pindex, wstat>>
       /\ (cpc = "idle" /\ cpc' = "load_159")
            => (cur = NoPlan \/ pstatus[cur] # "RUNNING")
       /\ (cpc = "load_162" /\ cpc' = "idle") => last' = "load_ok"]_vars

C4_Witness ==
    /\ last = "load_err"
    /\ cpc = "idle"
    /\ pstatus[cur] = "RUNNING"
    /\ pindex[cur] > 0

\* C5: in every state after load_plan(p) has returned and before another
\* request is made, p is IDLE with current_index = 0 and every waypoint
\* PENDING.
C5_FreshUntilStart ==
    (last = "load_ok" /\ cpc = "idle")
      => /\ pstatus[cur] = "IDLE"
         /\ pindex[cur] = 0
         /\ wstat[cur] = AllPending

\* C7: on a flying drone a loop = false plan that is only started gets one
\* go_to per waypoint, in list order (when the go_to for waypoint i is issued,
\* exactly the waypoints before i have had theirs), and reaches COMPLETED
\* with current_index = number of waypoints and every waypoint REACHED.
C7_RunsToCompletion ==
    /\ [][\A w \in Workers :
            (Issues(w) /\ is_flying /\ ~ploop[wplan[w]])
              => \A j \in WpIdx :
                   gotoCount[wplan[w]][j] = (IF j < widx[w] THEN 1 ELSE 0)]_vars
    /\ \A p \in Plans :
         [](is_flying /\ ~ploop[p] /\ pstatus[p] = "COMPLETED"
              => /\ pindex[p] = PlanLen(p)
                 /\ \A i \in WpIdx : wstat[p][i] = "REACHED" /\ gotoCount[p][i] = 1)
    /\ \A p \in Plans :
         (is_flying /\ ~ploop[p] /\ pstatus[p] = "RUNNING")
           ~> (pstatus[p] = "COMPLETED")

C7_Witness ==
    /\ cur # NoPlan
    /\ is_flying
    /\ ~ploop[cur]
    /\ pstatus[cur] = "COMPLETED"
    /\ pindex[cur] = PlanLen(cur)
    /\ \A i \in WpIdx : wstat[cur][i] = "REACHED" /\ gotoCount[cur][i] = 1

\* C8: a worker whose go_to returned failure (no stop signalled) marks the
\* waypoint SKIPPED and then stores current_index = i + 1 and returns to the
\* top of its loop, the plan's status unchanged by both steps; a loop = false
\* plan started on a drone that is not flying reaches COMPLETED with every
\* waypoint SKIPPED.
C8_FailureSkips ==
    /\ [][\A w \in Workers :
            (wpc[w] = "L221" /\ ~wsucc[w] /\ wpc'[w] # "L221")
              => /\ wstat'[wplan[w]][widx[w]] = "SKIPPED"
                 /\ wpc'[w] = "L228"
                 /\ pstatus' = pstatus]_vars
    /\ [][\A w \in Workers :
            (wpc[w] = "L228" /\ wstat[wplan[w]][widx[w]] = "SKIPPED"
               /\ wpc'[w] # "L228")
              => /\ pindex'[wplan[w]] = widx[w] + 1
                 /\ wpc'[w] = "L192"
                 /\ pstatus' = pstatus]_vars
    /\ \A p \in Plans :
         [](~is_flying /\ ~ploop[p] /\ pstatus[p] = "COMPLETED"
              => /\ pindex[p] = PlanLen(p)
                 /\ \A i \in WpIdx : wstat[p][i] = "SKIPPED")
    /\ \A p \in Plans :
         (~is_flying /\ ~ploop[p] /\ pstatus[p] = "RUNNING")
           ~> (pstatus[p] = "COMPLETED")

C8_Witness ==
    /\ cur # NoPlan
    /\ ~is_flying
    /\ ~ploop[cur]
    /\ pstatus[cur] = "COMPLETED"
    /\ \A i \in WpIdx : wstat[cur][i] = "SKIPPED"

\* C9: with only pause() and resume() called on a started plan, (a) no go_to
\* is issued while the plan is PAUSED, (b) the worker stays alive until it
\* completes the plan, so that after resume() it continues, (c) each go_to is
\* for the waypoint at current_index and is that waypoint's first in the
\* pass, and (d) current_index moves past a waypoint only after its go_to.
C9_PauseHolds ==
    [][\A w \in Workers : Issues(w) => pstatus[wplan[w]] # "PAUSED"]_vars

C9_WorkerSurvives ==
    [][\A w \in Workers :
         (wpc[w] # "dead" /\ wpc'[w] = "dead")
           => (wplan[w] # NoPlan /\ pstatus'[wplan[w]] = "COMPLETED")]_vars

C9_NoneTwiceNoneSkipped ==
    /\ [][\A w \in Workers :
            Issues(w) => /\ widx[w] = pindex[wplan[w]]
                         /\ gotoCount[wplan[w]][widx[w]] = 0]_vars
    /\ [][\A p \in Plans :
            (pindex'[p] # pindex[p] /\ pindex'[p] # 0)
              => /\ pindex'[p] = pindex[p] + 1
                 /\ gotoCount[p][pindex[p]] = 1]_vars

C9_PauseResume ==
    /\ C9_PauseHolds
    /\ C9_WorkerSurvives
    /\ C9_NoneTwiceNoneSkipped

\* C10: in the simulated backend, once land() has succeeded or
\* emergency_stop() has run, and until the next successful takeoff, the
\* state has is_flying = false, z = 0 and speed = 0, and no step of any
\* thread (a move or go_to in progress, an RC integrator tick) changes x, y,
\* z or speed.
C10_GroundedStays ==
    [][/\ grounded' => (~is_flying' /\ state'.z = 0 /\ state'.speed = 0)
       /\ (grounded /\ grounded')
            => /\ state'.x = state.x
               /\ state'.y = state.y
               /\ state'.z = state.z
               /\ state'.speed = state.speed]_vars

\* C11: in both backends, from every reachable state (never connected,
\* connected, flying, disconnected), a call of emergency_stop() ends by
\* returning normally, never by raising, and is_flying is false when it
\* returns.
C11_EmergencyStopReturns ==
    [][/\ \A c \in Callers :
            (spc[c] = "stop_77" /\ spc'[c] = "idle")
              => (last' = "emergency_done" /\ ~is_flying')
       /\ \A c \in Callers :
            (treq[c].op = "emergency" /\ treq'[c] = Idle)
              => (last' = "emergency_done" /\ ~tstate'.is_flying)]_vars

\* C12: in the simulator a flying drone is a connected one: is_flying implies
\* is_connected in every reachable state, whatever the interleaving of
\* connect, disconnect, takeoff, land and emergency_stop called from
\* different threads.
C12_FlyingImpliesConnected == is_flying => state.is_connected

\* C13: in both backends disconnect() stops the drone before it clears the
\* connection: when it returns, is_connected and is_flying are both false,
\* whatever the state it was called in.
C13_DisconnectStops ==
    [][/\ \A c \in Callers :
            (spc[c] = "disc_46" /\ spc'[c] = "idle")
              => (~state'.is_connected /\ ~is_flying')
       /\ \A c \in Callers :
            (treq[c].at = "L57" /\ treq'[c] = Idle)
              => (~tstate'.is_connected /\ ~tstate'.is_flying)]_vars

\* C14: in every reachable state of the simulator the battery is between 0
\* and 100, the altitude z is not negative, the yaw is at least 0 and below
\* 360, and the temperature is at most 45.
C14_Ranges ==
    /\ 0 <= state.battery /\ state.battery <= FullBattery
    /\ state.z >= 0
    /\ state.yaw.n >= 0
    /\ state.yaw.n < FullTurn \/ (state.yaw.n = FullTurn /\ state.yaw.e = -1)
    /\ state.temperature <= MaxTemperature

\* C15: while the simulated drone is flying its battery level never
\* increases, whatever requests are made.
C15_BatteryNeverRises ==
    [][(is_flying /\ is_flying') => state'.battery <= state.battery]_vars

\* C16: a call of takeoff, land, move, rotate or go_to on the simulator whose
\* precondition fails returns False and changes nothing: the DroneState
\* fields, the speed setting, the latched RC tuple and the flag that keeps
\* the integrator running are what they were.
Refusals == {"takeoff_false", "land_false", "move_false", "rotate_false",
             "go_to_false"}

C16_RefusedChangesNothing ==
    [][LET same == /\ state' = state
                   /\ speed_setting' = speed_setting
                   /\ rc_values' = rc_values
                   /\ rc_active' = rc_active
       IN  /\ (last' \in Refusals /\ last' # last) => same
           /\ \A c \in Callers :
                (spc[c] \in {"land_202", "land_203"} /\ spc'[c] # spc[c]
                   /\ ~is_flying) => same]_vars

\* C17: an RC tuple given to send_rc while the simulated drone is not flying
\* never moves it: with no send_rc made in flight, no tick of the integrator
\* changes x, y, z or the yaw, a takeoff after the call included.
C17_GroundTupleInert ==
    [][\A r \in RcThreads :
         (rpc[r] = "L210" /\ rpc'[r] # "L210")
           => (Pos(state') = Pos(state) /\ state'.yaw = state.yaw)]_vars

\* C18: in every backend each of the four RC values that send_rc latches
\* (simulator) or transmits (Tello) is the argument clamped to -100 .. 100.
Clamped(t) == <<Clamp(t[1]), Clamp(t[2]), Clamp(t[3]), Clamp(t[4])>>

C18_RcClamped ==
    /\ rc_values \in {ZeroRc, Clamped(rc_input)}
    /\ \A i \in DOMAIN twire :
         twire[i][1] = "rc" => SubSeq(twire[i], 2, 5) = Clamped(rc_input)

\* C19: in the simulator, with the zero RC tuple latched and no other
\* request running beside it, a go_to(x, y, z, speed) with z >= 0 that
\* returns True leaves the drone within 1 cm of (x, y, z); a go_to that starts
\* within 1 cm of its target returns True at once and leaves the position as
\* it was.
C19_GoToArrives ==
    [][/\ (mpc = "goto_184" /\ mpc' = "idle" /\ mloc.t[3] >= 0)
            => (last' = "go_to_true" /\ Dist2(Pos(state'), mloc.t) <= 1)
       /\ \A g \in TargetInputs :
            (mpc = "idle" /\ is_flying /\ Dist2(Pos(state), g[1]) < 1
               /\ last' = "go_to_true" /\ last # "go_to_true")
              => (mpc' = "idle" /\ Pos(state') = Pos(state))]_vars

\* A go_to has returned True after climbing from the hover altitude to its
\* target.
C19_Witness ==
    /\ last = "go_to_true"
    /\ mpc = "idle"
    /\ Pos(state) = <<0, 0, 120>>

\* C20: AutonomousNavigator.start() with no destination set raises, and
\* start() on an active navigator returns; either way the call leaves the
\* navigator's state (active, status, reached, destination) and its worker
\* threads as they were, and launches no worker.
C20_StartGuards ==
    [][/\ (ncall = "start_55" /\ nav.destination = NoDest /\ ncall' # ncall)
            => (last' = "start_raised" /\ ncall' = "idle"
                  /\ nav' = nav /\ npc' = npc)
       /\ (ncall = "start_53" /\ nav.active /\ ncall' # ncall)
            => (last' = "start_noop" /\ ncall' = "idle"
                  /\ nav' = nav /\ npc' = npc)
       /\ (ncall = "idle" /\ ncall' = "start_53") => (nav' = nav /\ npc' = npc)]_vars

\* start() has returned at once on a navigator that is active, its worker
\* alive.
C20_Witness ==
    /\ last = "start_noop"
    /\ ncall = "idle"
    /\ nav.active
    /\ \E w \in NavThreads : npc[w] # "dead"

\* C21: after stop() with no later start(), the navigator sends the zero
\* tuple (stop() itself does, at line 66), every worker thread ends, and from
\* then on the tuple latched in the drone, the last one the navigator sent,
\* is (0, 0, 0, 0), wherever in its tick the worker was when stop() ran.
Quiet ==
    /\ ncall = "idle"
    /\ \A w \in NavThreads : npc[w] = "dead"
    /\ rc_values = ZeroRc

C21_StopQuiesces ==
    /\ [][ncall = "stop_66" /\ ncall' = "idle" => rc_values' = ZeroRc]_vars
    /\ [](ncall = "stop_65" => <>[]Quiet)

\* stop() has returned and the worker, which sent a command computed from a
\* frame, has ended with the zero tuple latched.
C21_Witness ==
    /\ last = "stop_done"
    /\ Quiet
    /\ nav.avoidance_action # "none"
    /\ nav.status = "stopped"

\* C22: the navigator sets reached only on a tick whose snapshot was taken in
\* flight, closer than ARRIVAL_RADIUS to the destination; on that tick it
\* sends the zero tuple, sets the status to reached and active to false and
\* leaves its loop; and while reached stays set, with no start() after it,
\* no tuple other than the zero tuple is sent.
StartLinesNav == {"start_53", "start_55", "start_57", "start_58", "start_59",
                  "start_60"}

C22_ArrivalTick ==
    [][/\ (nav'.reached /\ ~nav.reached)
            => \E w \in NavThreads :
                 /\ npc[w] = "L119" /\ npc'[w] = "L121"
                 /\ nloc[w].pos # NoDest
                 /\ Arrived(nloc[w].pos, nloc[w].dest)
       /\ \A w \in NavThreads :
            /\ (npc[w] = "L117" /\ npc'[w] # "L117")
                 => (rc_values' = ZeroRc /\ npc'[w] = "L118")
            /\ (npc[w] = "L118" /\ npc'[w] # "L118") => nav'.status = "reached"
            /\ (npc[w] = "L121" /\ npc'[w] # "L121")
                 => (~nav'.active /\ npc'[w] = "L137")
       /\ (nav.reached /\ ncall \notin StartLinesNav /\ rc_values' # rc_values)
            => rc_values' = ZeroRc]_vars

\* C23: ray_cast returns (d, obs) with obs the first-inserted obstacle that
\* attains the least hit distance among the obstacles that overlap the
\* altitude oz and that the ray pierces within max_range, and d <= max_range
\* that distance; it returns (max_range, None) exactly when there is no such
\* obstacle.
HitDist(i) ==
    RayIntersect2d(cast.obstacles[i], cast.ox, cast.oy, cast.dir[1], cast.dir[2],
                   cast.max_range)
Hits == {i \in 1 .. Len(cast.obstacles) :
           OverlapsAltitude(cast.obstacles[i], cast.oz) /\ HitDist(i) # NoHit}
Nearest == {i \in Hits : \A j \in Hits : HitDist(i) <= HitDist(j)}

C23_RayCastNearest ==
    cast.pc = "returned" =>
      IF Hits = {}
        THEN cast.nearest_obs = 0 /\ cast.nearest_dist = cast.max_range
        ELSE /\ cast.nearest_obs \in Nearest
             /\ \A j \in Nearest : cast.nearest_obs <= j
             /\ cast.nearest_dist = HitDist(cast.nearest_obs)
             /\ cast.nearest_dist <= cast.max_range

\* C24: a command of the hardware adapter that timed out returns "not
\* acknowledged" and leaves the state as it was, and is_flying is changed by
\* takeoff() or land() only when the reply taken is the device's "ok" to the
\* very datagram that request sent: never a late reply to an earlier
\* command, nor the reply to another thread's command.
C24_OwnAck ==
    [][\A c \in Callers :
         treq[c].at = "after" /\ treq'[c] = Idle /\ treq[c].op \in FlightOps =>
           /\ treq[c].resp = "none" =>
                tstate' = tstate /\ last' = treq[c].op \o "_false"
           /\ tstate'.is_flying # tstate.is_flying =>
                Acked(treq[c].resp) /\ tser.got[c] = tser.mine[c]]_vars

\* C25: at most one autopilot worker thread is alive at any time, whatever
\* the sequence and timing of load_plan, start, pause, resume and abort.
C25_OneWorker ==
    Cardinality({w \in Workers : wpc[w] # "dead"}) <= 1

\* C28: at most one navigator worker thread is alive at any time, whatever
\* the sequence and timing of set_destination, start and stop.
C28_OneNavWorker ==
    Cardinality({w \in NavThreads : npc[w] # "dead"}) <= 1

\* C26: at most one RC integrator thread of the simulator is alive at any
\* time: an integrator has stopped before a later takeoff starts the next
\* one, also when that takeoff follows a land within one tick.
C26_OneIntegrator ==
    Cardinality({r \in RcThreads : rpc[r] # "dead"}) <= 1

\* C27: whenever the simulator is flying after a successful takeoff has
\* returned, an RC integrator thread is running (so that a latched non-zero
\* tuple goes on to change the pose), for every interleaving of takeoff with
\* concurrent land and emergency_stop requests.  Stated for the states in
\* which no control request is in progress.
C27_FlyingIntegrates ==
    is_flying /\ (\A c \in Callers : spc[c] = "idle") =>
      \E r \in RcThreads : rpc[r] # "dead"

ZoneOf(i) == Min(4, (i - 1) \div (Len(avoid.depths) \div 5))
ZoneLeast(z) ==
    CHOOSE m \in {avoid.depths[i] : i \in {j \in DOMAIN avoid.depths : ZoneOf(j) = z}} :
      \A i \in DOMAIN avoid.depths : ZoneOf(i) = z => m <= avoid.depths[i]
BestLeft == Max(ZoneLeast(0), ZoneLeast(1))
BestRight == Max(ZoneLeast(3), ZoneLeast(4))

C30_CriticalBacksOff ==
    avoid.pc = "returned" /\ ZoneLeast(2) < 50 =>
      /\ avoid.result[2] = -20
      /\ avoid.result[1] = IF BestLeft > BestRight THEN -70 ELSE 70
      /\ nav.avoidance_action = "critical"

\* A critical tick with the goal to the right and above, both sides equally
\* open, and one with the left side the more open: the drone backs off and
\* turns by the sides alone.
C30_Witness ==
    /\ avoid.pc = "returned"
    /\ ZoneLeast(2) < 50
    /\ avoid.goal_bearing = 45
    /\ avoid.goal_alt = 115
    /\ BestLeft = BestRight
    /\ avoid.result = <<70, -20, 17>>

\* C31: in the caution regime (50 <= centre < 100) fwd_cmd is
\* max(10, floor(45 * centre / 100)) and yaw_cmd is -50 or +50: towards the
\* goal's side (negative iff heading_error < 0) when the best zone depth of
\* that side clears (exceeds) CRITICAL_DISTANCE, else towards the other side
\* when that one clears it, and when neither does, towards the side with the
\* greater best zone depth.
HeadingError == ((avoid.goal_bearing - avoid.yaw + 180) % 360) - 180
TowardsGoal == IF HeadingError < 0 THEN -50 ELSE 50
GoalSideBest == IF HeadingError < 0 THEN BestLeft ELSE BestRight
OtherSideBest == IF HeadingError < 0 THEN BestRight ELSE BestLeft

C31_CautionSteers ==
    avoid.pc = "returned" /\ 50 <= ZoneLeast(2) /\ ZoneLeast(2) < 100 =>
      /\ avoid.result[2] = Max(10, (45 * ZoneLeast(2)) \div 100)
      /\ avoid.result[1] \in {-50, 50}
      /\ GoalSideBest > 50 => avoid.result[1] = TowardsGoal
      /\ GoalSideBest <= 50 /\ OtherSideBest > 50 =>
           avoid.result[1] = -TowardsGoal
      /\ GoalSideBest <= 50 /\ OtherSideBest <= 50 =>
           /\ BestLeft > BestRight => avoid.result[1] = -50
           /\ BestRight > BestLeft => avoid.result[1] = 50

\* A caution tick that slows to 34 and turns right, away from the goal on
\* the left whose side does not clear CRITICAL_DISTANCE.
C31_Witness ==
    /\ avoid.pc = "returned"
    /\ ZoneLeast(2) = 77
    /\ HeadingError < 0
    /\ BestLeft <= 50
    /\ BestRight > 50
    /\ avoid.result[1] = 50
    /\ avoid.result[2] = 34

\* C32: in the clear regime (centre >= 100), for every combination of zone
\* depths and heading error: if the least depth of zone 0 is below
\* 0.6 * SAFETY_DISTANCE (60) the yaw_cmd returned is at least 15, and if
\* that of zone 4 is below it the yaw_cmd returned is at most -15.
C32_PeripheralNudge ==
    avoid.pc = "returned" /\ ZoneLeast(2) >= 100 =>
      /\ ZoneLeast(0) < 60 => avoid.result[1] >= 15
      /\ ZoneLeast(4) < 60 => avoid.result[1] <= -15

\* C33: in the clear regime (centre >= 100) with the least depths of zones 0
\* and 4 both at least 60, the tuple sent is the pure goal-seeking one for
\* every heading error and altitude error, whatever the depths of zones 1
\* and 3: lateral 0, fwd_cmd 45, yaw_cmd = clamp(0.8 * heading_error, -60, 60)
\* and alt_cmd = clamp(0.5 * (goal_z - z), -30, 30).  (The two products are
\* compared in tenths.)
ClearOfPeriphery ==
    /\ avoid.pc = "sent"
    /\ ZoneLeast(2) >= 100
    /\ ZoneLeast(0) >= 60
    /\ ZoneLeast(4) >= 60
YawTenths == Max(-600, Min(600, 8 * HeadingError))
AltTenths == Max(-300, Min(300, 5 * (avoid.goal_alt - avoid.z)))

C33_GoalSeeking ==
    ClearOfPeriphery =>
      /\ rc_values[1] = 0
      /\ rc_values[2] = 45
      /\ 10 * rc_values[4] = YawTenths
      /\ 10 * rc_values[3] = AltTenths

\* C33, amended: as above, with yaw_cmd and alt_cmd the clamped products cut
\* to whole numbers towards zero.
TowardsZero(tenths) ==
    CHOOSE w \in -100 .. 100 :
      /\ w * tenths >= 0
      /\ Abs(10 * w) <= Abs(tenths)
      /\ Abs(tenths) < Abs(10 * w) + 10

C33_GoalSeekingWhole ==
    ClearOfPeriphery =>
      /\ rc_values[1] = 0
      /\ rc_values[2] = 45
      /\ rc_values[4] = TowardsZero(YawTenths)
      /\ rc_values[3] = TowardsZero(AltTenths)

\* A clear tick with zone 1 critical-close, the goal to the right and 35 cm
\* below: the tuple sent is the goal-seeking one, the altitude command cut
\* from -17.5 to -17.
C33_Witness ==
    /\ ClearOfPeriphery
    /\ ZoneLeast(1) = 40
    /\ HeadingError = 45
    /\ avoid.goal_alt - avoid.z = -35
    /\ rc_values = <<0, 45, -17, 36>>

\* C34: whenever the loaded plan's status is RUNNING or PAUSED, a worker
\* thread for that plan is alive, or start() is in the act of launching it:
\* no interleaving of pause(), resume() and abort() with the worker's
\* completion leaves the plan RUNNING or PAUSED with no worker.  (A worker
\* at line 190 is about to take the loaded plan.)
C34_WorkerBehindStatus ==
    cur # NoPlan /\ pstatus[cur] \in {"RUNNING", "PAUSED"} =>
      \/ \E w \in Workers : wpc[w] = "L190"
      \/ \E w \in Workers : wpc[w] \notin {"dead", "L190"} /\ wplan[w] = cur
      \/ cpc = "start_173"

\* C35: for the loaded plan, in every reachable state, every waypoint at an
\* index below current_index is REACHED or SKIPPED, every waypoint at an
\* index above current_index is PENDING, and only the waypoint at
\* current_index can be ACTIVE.  Stated for the states in which neither
\* load_plan nor a worker's rewind of a looping plan is half-way through its
\* writes.
Rewinding ==
    \/ cpc \in {"load_160", "load_161", "load_162"}
    \/ \E w \in Workers : wpc[w] = "L206"

C35_WaypointsInOrder ==
    cur # NoPlan /\ ~Rewinding =>
      \A i \in WpIdx :
        /\ i < pindex[cur] => wstat[cur][i] \in {"REACHED", "SKIPPED"}
        /\ i > pindex[cur] => wstat[cur][i] = "PENDING"
        /\ i # pindex[cur] => wstat[cur][i] # "ACTIVE"

====
